---- MODULE Spec2Model ----
(***************************************************************************)
(* State-machine model of the test-management application: the App shell   *)
(* (view, suites, runs, current user), the SuiteManager (suite selection,  *)
(* access management, run configuration) and the TestRunner (manual and    *)
(* automated execution of a suite's cases).                                *)
(*                                                                         *)
(* React conventions used throughout:                                      *)
(*  - a component's useState values are variables that are reset to their  *)
(*    initial values when the component is unmounted and mounted again;    *)
(*  - an event handler runs atomically and sees the values of the latest   *)
(*    render; an async continuation sees the values of the render that     *)
(*    created it (its closure);                                            *)
(*  - a state update issued by a callback of an unmounted component        *)
(*    instance has no effect on any mounted instance.                      *)
(***************************************************************************)
EXTENDS Integers, Sequences, FiniteSets, TLC

VARIABLES
    \* ---- App (src/unnamed/part_003) ----
    view,             \* ViewState, or "CRASHED" after an uncaught render error
    suites,           \* sequence of TestSuite
    runs,             \* sequence of TestRun (the run history)
    activeRunSuite,   \* <<>> (null) or <<suite>>
    currentUser,      \* id of the current user
    notifications,    \* sequence of notification messages, newest first
    clock,            \* new Date() / crypto.randomUUID(): ticks when a run is recorded
    \* ---- SuiteManager (src/unnamed/part_001) ----
    activeSuiteId,    \* suite id or NoSuiteId (null)
    showPermModal,
    permUserToAdd,    \* user id or NoUser ('')
    permRoleToAdd,
    showRunModal,
    runMode,          \* draft execution mode of the run dialog
    runAppType,       \* draft application type
    runAddress,       \* draft address
    runEmail,         \* draft test account
    runAssets,        \* draft list of asset file names
    showPromptModal,  \* the generation / import dialog is open
    isGenerating,
    genOpRef,         \* genOpRef.current: token of the current generation, or 0
    prompt,
    importMode,
    appType,          \* generation inputs: application type, address, account
    appContextValue,
    testEmail,
    genPending,       \* generation requests that have not resolved yet
    now,              \* Date.now() as read by the next generation request
    alerts,           \* number of failure notices shown by alert()
    download,         \* rows of the last exported file, <<>> before any export
    \* ---- Dashboard (src/components/TestRunner.tsx) ----
    editingSuite,     \* <<>> (null) or <<copy of the suite whose access is edited>>
    dashPermUserToAdd,
    dashPermRoleToAdd,
    \* ---- TestRunner (src/components/TestRunner.tsx) ----
    runnerReady,      \* the init effect of the mounted instance has run
    currentCaseIndex,
    results,          \* case id -> TestResult of the mounted instance
    startTime,
    isAutoRunning,
    effectDirty,      \* the automation effect's dependencies changed
    advanceTimer,     \* the effect's 1500 ms timer is pending
    manualTimers,     \* number of pending 200 ms auto-advance timers
    inflight          \* simulation requests that have not resolved yet

vars == <<view, suites, runs, activeRunSuite, currentUser, notifications, clock,
          activeSuiteId, showPermModal, permUserToAdd, permRoleToAdd,
          showRunModal, runMode, runAppType, runAddress, runEmail, runAssets,
          showPromptModal, isGenerating, genOpRef, prompt, importMode,
          appType, appContextValue, testEmail, genPending, now, alerts,
          download, editingSuite, dashPermUserToAdd, dashPermRoleToAdd,
          runnerReady, currentCaseIndex, results, startTime,
          isAutoRunning, effectDirty, advanceTimer, manualTimers, inflight>>

appVars    == <<view, suites, runs, activeRunSuite, currentUser, notifications, clock>>
smVars     == <<activeSuiteId, showPermModal, permUserToAdd, permRoleToAdd,
                showRunModal, runMode, runAppType, runAddress, runEmail, runAssets>>
draftVars  == <<runAppType, runAddress, runEmail, runAssets>>
genVars    == <<showPromptModal, isGenerating, genOpRef, prompt, importMode,
                appType, appContextValue, testEmail>>
genAll     == <<genVars, genPending, now, alerts>>
dashVars   == <<editingSuite, dashPermUserToAdd, dashPermRoleToAdd>>
runnerVars == <<runnerReady, currentCaseIndex, results, startTime,
                isAutoRunning, effectDirty, advanceTimer, manualTimers>>

----------------------------------------------------------------------------
\* Bounds

\* number of cases of the suite found in storage at start-up
NumCases == 2
\* number of suites the collection may hold
MaxSuites == 1
\* number of completed runs kept in the history
MaxRuns == 2
\* number of 200 ms auto-advance timers pending at once
MaxTimers == 1
\* result entries of a run whose classification is computed
MaxEntries == 10
\* files chosen in one selection of the asset input
MaxBatch == 2
\* generation requests issued
MaxGenRequests == 2
\* cases returned by one generation request
MaxNewCases == 1

----------------------------------------------------------------------------
\* Constants of the program

\* null, the initial activeSuiteId
NoSuiteId == 0

\* the empty string of the add-user selector
NoUser == ""

SUPER_ADMIN_EMAIL == "administrator@autotest.ai"

MOCK_USERS == <<"admin_1", "u1", "u2">>

Users == {MOCK_USERS[i] : i \in 1..Len(MOCK_USERS)}

Email == [u \in Users |->
            CASE u = "admin_1" -> SUPER_ADMIN_EMAIL
              [] u = "u1"      -> "bear@autotest.ai"
              [] OTHER         -> "dave@dev.co"]

Roles == {"ADMIN", "MEMBER", "OBSERVER"}

Verdicts == {"PASSED", "FAILED", "SKIPPED"}

FallbackNote == "AI simulation failed"

NoNotes == "undefined"

NewSuiteName == "new suite"

\* values typed into the name input
SuiteNames == {"auth flow", "renamed"}

UNSET == "unset"

\* the empty object {} / an absent mapping
EmptyMap == [x \in {} |-> "ADMIN"]

\* targetConfig: appType and appAddress are required fields; an optional
\* field that is absent is UNSET, an absent asset list is <<>> and a present
\* one is <<list>>
TargetConfig(type, address, email, mode, assets) ==
    [present |-> TRUE, appType |-> type, appAddress |-> address,
     testEmail |-> email, executionMode |-> mode,
     mockAssets |-> assets]

\* targetConfig absent
NoConfig == [present |-> FALSE, appType |-> UNSET, appAddress |-> UNSET,
             testEmail |-> UNSET, executionMode |-> UNSET, mockAssets |-> <<>>]

CaseIds(n) == [i \in 1..n |-> i]

MOCK_SUITES ==
    << [id |-> 1, name |-> "auth flow", cases |-> CaseIds(NumCases),
        hasPermissions |-> TRUE,
        permissions |-> [u \in {"u1", "u2"} |->
                            IF u = "u1" THEN "ADMIN" ELSE "OBSERVER"],
        targetConfig |-> NoConfig] >>

\* a suite collection written by an older version: no permissions field
LEGACY_SUITES ==
    << [MOCK_SUITES[1] EXCEPT !.hasPermissions = FALSE,
                              !.permissions = EmptyMap] >>

----------------------------------------------------------------------------
\* Helpers on sequences

Range(s) == {s[i] : i \in 1..Len(s)}

\* suites.find(s => s.id === id)
FindSuite(ss, id) ==
    LET idx == {i \in 1..Len(ss) : ss[i].id = id}
    IN  IF idx = {} THEN <<>>
        ELSE <<ss[CHOOSE i \in idx : \A j \in idx : i <= j]>>

\* suites.map(s => s.id === id ? updated : s)
ReplaceSuite(ss, id, updated) ==
    [i \in 1..Len(ss) |-> IF ss[i].id = id THEN updated ELSE ss[i]]

----------------------------------------------------------------------------
\* Role resolution

IsGlobalAdminOf(u) == Email[u] = SUPER_ADMIN_EMAIL

isGlobalAdmin == IsGlobalAdminOf(currentUser)

\* variant: the suite's mapping is consulted before the super-admin check
RoleOf_MappingFirst(u, suite) ==
    IF suite.hasPermissions /\ u \in DOMAIN suite.permissions
    THEN suite.permissions[u]
    ELSE IF IsGlobalAdminOf(u) THEN "ADMIN"
    ELSE "NONE"

\* getUserRole generalised to any user
RoleOf(u, suite) ==
    IF IsGlobalAdminOf(u) THEN "ADMIN"
    ELSE IF ~suite.hasPermissions THEN "NONE"
    ELSE IF u \in DOMAIN suite.permissions THEN suite.permissions[u]
    ELSE "NONE"

getUserRole(suite) == RoleOf(currentUser, suite)

activeSuite == FindSuite(suites, activeSuiteId)

activeRole == IF activeSuite # <<>> THEN getUserRole(activeSuite[1]) ELSE "NONE"

canWrite        == activeRole \in {"ADMIN", "MEMBER"}
\* variant: every role on the suite may run it
canRun_AnyRole  == activeRole \in {"ADMIN", "MEMBER", "OBSERVER"}
canRun          == activeRole \in {"ADMIN", "MEMBER"}
canDelete       == activeRole = "ADMIN"
canManageAccess == activeRole = "ADMIN"

\* variant: the list is not filtered by role
VisibleSuitesOf_Unfiltered(u) == suites

\* suites.filter(s => getUserRole(s) !== 'NONE'), for any user
VisibleSuitesOf(u) == SelectSeq(suites, LAMBDA s : RoleOf(u, s) # "NONE")

visibleSuites == VisibleSuitesOf(currentUser)

----------------------------------------------------------------------------
\* Permission mappings (plain objects keyed by user id)

\* variant: the new object is built without spreading the old one
SetEntry_Replaces(perms, k, v) == [u \in {k} |-> v]

\* { ...perms, [k]: v }
SetEntry(perms, k, v) ==
    [u \in (DOMAIN perms) \cup {k} |-> IF u = k THEN v ELSE perms[u]]

\* delete perms[k]
DeleteEntry(perms, k) == [u \in (DOMAIN perms) \ {k} |-> perms[u]]

----------------------------------------------------------------------------
\* Run history

\* Array.prototype.sort by startTime, ascending and stable (insertion sort)
RECURSIVE InsertByStart(_, _)
InsertByStart(r, sorted) ==
    IF sorted = <<>> THEN <<r>>
    ELSE IF r.startTime < Head(sorted).startTime THEN <<r>> \o sorted
    ELSE <<Head(sorted)>> \o InsertByStart(r, Tail(sorted))

RECURSIVE SortByStartTime(_)
SortByStartTime(rs) ==
    IF rs = <<>> THEN <<>>
    ELSE InsertByStart(rs[Len(rs)], SortByStartTime(SubSeq(rs, 1, Len(rs) - 1)))

\* Rendering the Dashboard sorts the runs array it was given, in place
DashboardRender(rs) == SortByStartTime(rs)

----------------------------------------------------------------------------
\* Component mounting

\* useState initial values of SuiteManager
SuiteManagerFresh ==
    /\ activeSuiteId' = NoSuiteId
    /\ showPermModal' = FALSE
    /\ permUserToAdd' = NoUser
    /\ permRoleToAdd' = "MEMBER"
    /\ showRunModal' = FALSE
    /\ runMode' = "MANUAL"
    /\ runAppType' = "WEB"
    /\ runAddress' = ""
    /\ runEmail' = ""
    /\ runAssets' = <<>>
    /\ showPromptModal' = FALSE
    /\ isGenerating' = FALSE
    /\ genOpRef' = 0
    /\ prompt' = ""
    /\ importMode' = FALSE
    /\ appType' = "WEB"
    /\ appContextValue' = ""
    /\ testEmail' = ""
    \* the continuations of the unmounted instance stay pending and keep
    \* the ref object of that instance
    /\ genPending' = {[req EXCEPT !.instance = "unmounted",
                                  !.ref = IF req.instance = "mounted"
                                          THEN genOpRef ELSE req.ref]
                       : req \in genPending}

\* useState initial values of Dashboard
DashboardFresh ==
    /\ editingSuite' = <<>>
    /\ dashPermUserToAdd' = NoUser
    /\ dashPermRoleToAdd' = "MEMBER"

\* no generation dialog is open, no request was ever issued, no file was
\* exported and no access dialog is open on the Dashboard
GenerationIdle ==
    /\ showPromptModal = FALSE
    /\ isGenerating = FALSE
    /\ genOpRef = 0
    /\ prompt = ""
    /\ importMode = FALSE
    /\ appType = "WEB"
    /\ appContextValue = ""
    /\ testEmail = ""
    /\ genPending = {}
    /\ now = 1
    /\ alerts = 0
    /\ download = <<>>
    /\ editingSuite = <<>>
    /\ dashPermUserToAdd = NoUser
    /\ dashPermRoleToAdd = "MEMBER"

EmptyResults == [c \in {} |-> [caseId |-> 0, status |-> "IDLE",
                               notes |-> NoNotes, timestamp |-> 0]]

\* no TestRunner is mounted: its state does not exist
RunnerGone ==
    /\ runnerReady' = FALSE
    /\ currentCaseIndex' = 0
    /\ results' = EmptyResults
    /\ startTime' = 0
    /\ isAutoRunning' = FALSE
    /\ effectDirty' = FALSE
    /\ advanceTimer' = FALSE
    /\ manualTimers' = 0
    \* the continuations of the unmounted instance stay pending; what they
    \* close over belongs to an instance that no longer exists
    /\ inflight' = {[req EXCEPT !.instance = "unmounted",
                                !.closure = EmptyResults] : req \in inflight}

Init ==
    /\ view = "DASHBOARD"
    /\ suites \in {MOCK_SUITES, LEGACY_SUITES, <<>>}
    /\ runs = <<>>
    /\ activeRunSuite = <<>>
    /\ currentUser = MOCK_USERS[2]
    /\ notifications = <<>>
    /\ clock = 1
    /\ activeSuiteId = NoSuiteId
    /\ showPermModal = FALSE
    /\ permUserToAdd = NoUser
    /\ permRoleToAdd = "MEMBER"
    /\ showRunModal = FALSE
    /\ runMode = "MANUAL"
    /\ runAppType = "WEB"
    /\ runAddress = ""
    /\ runEmail = ""
    /\ runAssets = <<>>
    /\ runnerReady = FALSE
    /\ currentCaseIndex = 0
    /\ results = EmptyResults
    /\ startTime = 0
    /\ isAutoRunning = FALSE
    /\ effectDirty = FALSE
    /\ advanceTimer = FALSE
    /\ manualTimers = 0
    /\ inflight = {}
    /\ GenerationIdle

----------------------------------------------------------------------------
\* Sidebar

\* the access dialog is rendered: showPermModal && activeSuite
PermModalRendered == view = "SUITES" /\ showPermModal /\ activeSuite # <<>>

RunModalRendered == view = "SUITES" /\ showRunModal

PromptModalRendered == view = "SUITES" /\ showPromptModal

\* the access dialog of the Dashboard: editingSuite && ...
DashModalRendered == view = "DASHBOARD" /\ editingSuite # <<>>

\* a rendered dialog is a full-screen overlay above the page and the sidebar
MainUIEnabled ==
    ~PermModalRendered /\ ~RunModalRendered /\ ~PromptModalRendered
        /\ ~DashModalRendered

SidebarShown == view \in {"DASHBOARD", "SUITES"}

\* onNavigate = setView
Navigate(v) ==
    /\ SidebarShown
    /\ MainUIEnabled
    /\ v \in {"DASHBOARD", "SUITES"}
    /\ v # view
    /\ view' = v
    /\ runs' = IF v = "DASHBOARD" THEN DashboardRender(runs) ELSE runs
    /\ SuiteManagerFresh
    /\ UNCHANGED <<suites, activeRunSuite, currentUser, notifications, clock>>
    /\ UNCHANGED <<runnerVars, inflight>>
    /\ DashboardFresh
    /\ UNCHANGED <<now, alerts, download>>

\* onSwitchUser = setCurrentUser
SwitchUser(u) ==
    /\ SidebarShown
    /\ MainUIEnabled
    /\ u \in Users
    /\ u # currentUser
    /\ currentUser' = u
    /\ UNCHANGED <<view, suites, runs, activeRunSuite, notifications, clock>>
    /\ UNCHANGED <<smVars, runnerVars, inflight>>
    /\ UNCHANGED <<genAll, download, dashVars>>

----------------------------------------------------------------------------
\* SuiteManager: suite list

SuiteIds(ss) == {ss[i].id : i \in 1..Len(ss)}

\* crypto.randomUUID(): an id no suite has
FreshSuiteId ==
    CHOOSE i \in 1..(Len(suites) + 1) :
        /\ i \notin SuiteIds(suites)
        /\ \A j \in 1..(Len(suites) + 1) : j \notin SuiteIds(suites) => i <= j

\* onClick={() => setActiveSuiteId(suite.id)} on an entry of visibleSuites
SelectSuite(id) ==
    /\ view = "SUITES"
    /\ MainUIEnabled
    /\ id \in SuiteIds(visibleSuites)
    /\ id # activeSuiteId
    /\ activeSuiteId' = id
    /\ UNCHANGED <<appVars, runnerVars, inflight>>
    /\ UNCHANGED <<showPermModal, permUserToAdd, permRoleToAdd, showRunModal, runMode>>
    /\ UNCHANGED draftVars
    /\ UNCHANGED <<genAll, download, dashVars>>

createSuite ==
    /\ view = "SUITES"
    /\ MainUIEnabled
    /\ Len(suites) < MaxSuites
    /\ LET newSuite == [id |-> FreshSuiteId, name |-> NewSuiteName,
                         cases |-> <<>>,
                         hasPermissions |-> TRUE,
                         permissions |-> SetEntry(EmptyMap, currentUser, "ADMIN"),
                         targetConfig |-> NoConfig]
       IN  /\ suites' = Append(suites, newSuite)
           /\ activeSuiteId' = newSuite.id
    /\ UNCHANGED <<view, runs, activeRunSuite, currentUser, notifications, clock>>
    /\ UNCHANGED <<showPermModal, permUserToAdd, permRoleToAdd, showRunModal, runMode>>
    /\ UNCHANGED draftVars
    /\ UNCHANGED <<runnerVars, inflight>>
    /\ UNCHANGED <<genAll, download, dashVars>>

\* the trash button of a listed suite, rendered when the role on it is ADMIN;
\* confirmed: the answer to confirm()
deleteSuite(id, confirmed) ==
    /\ view = "SUITES"
    /\ MainUIEnabled
    /\ id \in SuiteIds(visibleSuites)
    /\ getUserRole(FindSuite(suites, id)[1]) = "ADMIN"
    /\ confirmed \in BOOLEAN
    /\ IF confirmed
       THEN /\ suites' = SelectSeq(suites, LAMBDA s : s.id # id)
            /\ activeSuiteId' = IF activeSuiteId = id THEN NoSuiteId ELSE activeSuiteId
       ELSE UNCHANGED <<suites, activeSuiteId>>
    /\ UNCHANGED <<view, runs, activeRunSuite, currentUser, notifications, clock>>
    /\ UNCHANGED <<showPermModal, permUserToAdd, permRoleToAdd, showRunModal, runMode>>
    /\ UNCHANGED draftVars
    /\ UNCHANGED <<runnerVars, inflight>>
    /\ UNCHANGED <<genAll, download, dashVars>>

\* variant: a rename is propagated to the records of past runs
RenameSuite_RewritesHistory(n) ==
    /\ view = "SUITES"
    /\ MainUIEnabled
    /\ activeSuite # <<>>
    /\ canWrite
    /\ n # activeSuite[1].name
    /\ suites' = [i \in 1..Len(suites) |->
                    IF suites[i].id = activeSuite[1].id
                    THEN [suites[i] EXCEPT !.name = n] ELSE suites[i]]
    /\ runs' = [i \in 1..Len(runs) |->
                  IF runs[i].suiteId = activeSuite[1].id
                  THEN [runs[i] EXCEPT !.suiteName = n] ELSE runs[i]]
    /\ UNCHANGED <<view, activeRunSuite, currentUser, notifications, clock>>
    /\ UNCHANGED <<smVars, runnerVars, inflight>>
    /\ UNCHANGED <<genAll, download, dashVars>>

\* the name input of the active suite, disabled unless canWrite
RenameSuite(n) ==
    /\ view = "SUITES"
    /\ MainUIEnabled
    /\ activeSuite # <<>>
    /\ canWrite
    /\ n # activeSuite[1].name
    /\ suites' = [i \in 1..Len(suites) |->
                    IF suites[i].id = activeSuite[1].id
                    THEN [suites[i] EXCEPT !.name = n] ELSE suites[i]]
    /\ UNCHANGED <<view, runs, activeRunSuite, currentUser, notifications, clock>>
    /\ UNCHANGED <<smVars, runnerVars, inflight>>
    /\ UNCHANGED <<genAll, download, dashVars>>

----------------------------------------------------------------------------
\* SuiteManager: access management

\* the "manage access" button, rendered when canManageAccess
OpenPermModal ==
    /\ view = "SUITES"
    /\ MainUIEnabled
    /\ activeSuite # <<>>
    /\ canManageAccess
    /\ showPermModal' = TRUE
    /\ UNCHANGED <<appVars, runnerVars, inflight>>
    /\ UNCHANGED <<activeSuiteId, permUserToAdd, permRoleToAdd, showRunModal, runMode>>
    /\ UNCHANGED draftVars
    /\ UNCHANGED <<genAll, download, dashVars>>

ClosePermModal ==
    /\ PermModalRendered
    /\ showPermModal' = FALSE
    /\ UNCHANGED <<appVars, runnerVars, inflight>>
    /\ UNCHANGED <<activeSuiteId, permUserToAdd, permRoleToAdd, showRunModal, runMode>>
    /\ UNCHANGED draftVars
    /\ UNCHANGED <<genAll, download, dashVars>>

\* options of the add-user selector
AddUserOptions(suite) ==
    {u \in Users : Email[u] # SUPER_ADMIN_EMAIL /\ u \notin DOMAIN suite.permissions}

SetPermUserToAdd(u) ==
    /\ PermModalRendered
    /\ u \in AddUserOptions(activeSuite[1]) \cup {NoUser}
    /\ u # permUserToAdd
    /\ permUserToAdd' = u
    /\ UNCHANGED <<appVars, runnerVars, inflight>>
    /\ UNCHANGED <<activeSuiteId, showPermModal, permRoleToAdd, showRunModal, runMode>>
    /\ UNCHANGED draftVars
    /\ UNCHANGED <<genAll, download, dashVars>>

SetPermRoleToAdd(r) ==
    /\ PermModalRendered
    /\ r \in Roles
    /\ r # permRoleToAdd
    /\ permRoleToAdd' = r
    /\ UNCHANGED <<appVars, runnerVars, inflight>>
    /\ UNCHANGED <<activeSuiteId, showPermModal, permUserToAdd, showRunModal, runMode>>
    /\ UNCHANGED draftVars
    /\ UNCHANGED <<genAll, download, dashVars>>

\* { ...activeSuite, permissions: perms }
WithPermissions(suite, perms) ==
    [suite EXCEPT !.hasPermissions = TRUE, !.permissions = perms]

handleAddPermission ==
    /\ PermModalRendered
    /\ permUserToAdd # NoUser
    /\ LET updatedSuite ==
             WithPermissions(activeSuite[1],
                 SetEntry(activeSuite[1].permissions, permUserToAdd, permRoleToAdd))
       IN  suites' = ReplaceSuite(suites, activeSuite[1].id, updatedSuite)
    /\ permUserToAdd' = NoUser
    /\ UNCHANGED <<view, runs, activeRunSuite, currentUser, notifications, clock>>
    /\ UNCHANGED <<activeSuiteId, showPermModal, permRoleToAdd, showRunModal, runMode>>
    /\ UNCHANGED draftVars
    /\ UNCHANGED <<runnerVars, inflight>>
    /\ UNCHANGED <<genAll, download, dashVars>>

\* rows of the dialog: entries of the mapping whose user is in allUsers
PermRows(suite) == (DOMAIN suite.permissions) \cap Users

handleChangePermission(userId, newRole) ==
    /\ PermModalRendered
    /\ userId \in PermRows(activeSuite[1])
    /\ newRole \in Roles
    /\ newRole # activeSuite[1].permissions[userId]
    /\ LET updatedSuite ==
             WithPermissions(activeSuite[1],
                 SetEntry(activeSuite[1].permissions, userId, newRole))
       IN  suites' = ReplaceSuite(suites, activeSuite[1].id, updatedSuite)
    /\ UNCHANGED <<view, runs, activeRunSuite, currentUser, notifications, clock>>
    /\ UNCHANGED <<smVars, runnerVars, inflight>>
    /\ UNCHANGED <<genAll, download, dashVars>>

\* variant: the entry is removed without asking
handleRemovePermission_NoConfirm(userId, confirmed) ==
    /\ PermModalRendered
    /\ userId \in PermRows(activeSuite[1])
    /\ confirmed \in BOOLEAN
    /\ LET self == userId = currentUser /\ ~isGlobalAdmin
           updatedSuite ==
             WithPermissions(activeSuite[1],
                 DeleteEntry(activeSuite[1].permissions, userId))
       IN  /\ suites' = ReplaceSuite(suites, activeSuite[1].id, updatedSuite)
           /\ activeSuiteId' = IF self THEN NoSuiteId ELSE activeSuiteId
    /\ UNCHANGED <<view, runs, activeRunSuite, currentUser, notifications, clock>>
    /\ UNCHANGED <<showPermModal, permUserToAdd, permRoleToAdd, showRunModal, runMode>>
    /\ UNCHANGED draftVars
    /\ UNCHANGED <<runnerVars, inflight>>
    /\ UNCHANGED <<genAll, download, dashVars>>

\* variant: the selection is kept after one's own entry is removed
handleRemovePermission_KeepsSelection(userId, confirmed) ==
    /\ PermModalRendered
    /\ userId \in PermRows(activeSuite[1])
    /\ confirmed \in BOOLEAN
    /\ LET self == userId = currentUser /\ ~isGlobalAdmin
           updatedSuite ==
             WithPermissions(activeSuite[1],
                 DeleteEntry(activeSuite[1].permissions, userId))
       IN  IF self /\ ~confirmed
           THEN UNCHANGED suites
           ELSE suites' = ReplaceSuite(suites, activeSuite[1].id, updatedSuite)
    /\ UNCHANGED <<view, runs, activeRunSuite, currentUser, notifications, clock>>
    /\ UNCHANGED <<smVars, runnerVars, inflight>>
    /\ UNCHANGED <<genAll, download, dashVars>>

\* confirmed: the answer to confirm(), asked only for one's own entry
handleRemovePermission(userId, confirmed) ==
    /\ PermModalRendered
    /\ userId \in PermRows(activeSuite[1])
    /\ confirmed \in BOOLEAN
    /\ LET self == userId = currentUser /\ ~isGlobalAdmin
           updatedSuite ==
             WithPermissions(activeSuite[1],
                 DeleteEntry(activeSuite[1].permissions, userId))
       IN  IF self /\ ~confirmed
           THEN UNCHANGED <<suites, activeSuiteId>>
           ELSE /\ suites' = ReplaceSuite(suites, activeSuite[1].id, updatedSuite)
                /\ activeSuiteId' = IF self THEN NoSuiteId ELSE activeSuiteId
    /\ UNCHANGED <<view, runs, activeRunSuite, currentUser, notifications, clock>>
    /\ UNCHANGED <<showPermModal, permUserToAdd, permRoleToAdd, showRunModal, runMode>>
    /\ UNCHANGED draftVars
    /\ UNCHANGED <<runnerVars, inflight>>
    /\ UNCHANGED <<genAll, download, dashVars>>

----------------------------------------------------------------------------
\* Dashboard: access management of the super administrator

\* the access table is rendered for the super administrator only
AccessTableRendered == view = "DASHBOARD" /\ isGlobalAdmin /\ MainUIEnabled

\* onClick={() => setEditingSuite(suite)}: the dialog keeps the suite object
\* of the render in which the button was pressed
Dashboard_openAccessModal(id) ==
    /\ AccessTableRendered
    /\ FindSuite(suites, id) # <<>>
    /\ editingSuite' = FindSuite(suites, id)
    /\ UNCHANGED <<dashPermUserToAdd, dashPermRoleToAdd>>
    /\ UNCHANGED <<appVars, smVars, runnerVars, inflight, genAll, download>>

\* setEditingSuite(null)
Dashboard_closeAccessModal ==
    /\ DashModalRendered
    /\ editingSuite' = <<>>
    /\ UNCHANGED <<dashPermUserToAdd, dashPermRoleToAdd>>
    /\ UNCHANGED <<appVars, smVars, runnerVars, inflight, genAll, download>>

Dashboard_setPermUserToAdd(u) ==
    /\ DashModalRendered
    /\ u \in AddUserOptions(editingSuite[1]) \cup {NoUser}
    /\ u # dashPermUserToAdd
    /\ dashPermUserToAdd' = u
    /\ UNCHANGED <<editingSuite, dashPermRoleToAdd>>
    /\ UNCHANGED <<appVars, smVars, runnerVars, inflight, genAll, download>>

Dashboard_setPermRoleToAdd(r) ==
    /\ DashModalRendered
    /\ r \in Roles
    /\ r # dashPermRoleToAdd
    /\ dashPermRoleToAdd' = r
    /\ UNCHANGED <<editingSuite, dashPermUserToAdd>>
    /\ UNCHANGED <<appVars, smVars, runnerVars, inflight, genAll, download>>

\* variant: every stored suite is replaced by the edited one
StoreEdited_EverySuite(ss, updated) == [i \in 1..Len(ss) |-> updated]

\* setSuites(suites.map(s => s.id === editingSuite.id ? updatedSuite : s));
\* setEditingSuite(updatedSuite)
StoreEdited(ss, updated) == ReplaceSuite(ss, updated.id, updated)

Dashboard_handleAddPermission ==
    /\ DashModalRendered
    /\ dashPermUserToAdd # NoUser
    /\ LET updatedSuite ==
             WithPermissions(editingSuite[1],
                 SetEntry(editingSuite[1].permissions,
                          dashPermUserToAdd, dashPermRoleToAdd))
       IN  /\ suites' = StoreEdited(suites, updatedSuite)
           /\ editingSuite' = <<updatedSuite>>
    /\ dashPermUserToAdd' = NoUser
    /\ UNCHANGED dashPermRoleToAdd
    /\ UNCHANGED <<view, runs, activeRunSuite, currentUser, notifications, clock>>
    /\ UNCHANGED <<smVars, runnerVars, inflight, genAll, download>>

Dashboard_handleChangePermission(userId, newRole) ==
    /\ DashModalRendered
    /\ userId \in PermRows(editingSuite[1])
    /\ newRole \in Roles
    /\ newRole # editingSuite[1].permissions[userId]
    /\ LET updatedSuite ==
             WithPermissions(editingSuite[1],
                 SetEntry(editingSuite[1].permissions, userId, newRole))
       IN  /\ suites' = StoreEdited(suites, updatedSuite)
           /\ editingSuite' = <<updatedSuite>>
    /\ UNCHANGED <<dashPermUserToAdd, dashPermRoleToAdd>>
    /\ UNCHANGED <<view, runs, activeRunSuite, currentUser, notifications, clock>>
    /\ UNCHANGED <<smVars, runnerVars, inflight, genAll, download>>

\* no confirmation is asked here: the super administrator has no entry
Dashboard_handleRemovePermission(userId) ==
    /\ DashModalRendered
    /\ userId \in PermRows(editingSuite[1])
    /\ LET updatedSuite ==
             WithPermissions(editingSuite[1],
                 DeleteEntry(editingSuite[1].permissions, userId))
       IN  /\ suites' = StoreEdited(suites, updatedSuite)
           /\ editingSuite' = <<updatedSuite>>
    /\ UNCHANGED <<dashPermUserToAdd, dashPermRoleToAdd>>
    /\ UNCHANGED <<view, runs, activeRunSuite, currentUser, notifications, clock>>
    /\ UNCHANGED <<smVars, runnerVars, inflight, genAll, download>>

----------------------------------------------------------------------------
\* SuiteManager: run configuration

\* variant: the dialog opens on the draft left by the previous dialog
initiateRun_KeepsDraft ==
    /\ view = "SUITES"
    /\ MainUIEnabled
    /\ canRun
    /\ activeSuite # <<>>
    /\ showRunModal' = TRUE
    /\ UNCHANGED <<appVars, runnerVars, inflight>>
    /\ UNCHANGED <<activeSuiteId, showPermModal, permUserToAdd, permRoleToAdd>>
    /\ UNCHANGED <<runMode, runAppType, runAddress, runEmail, runAssets>>
    /\ UNCHANGED <<genAll, download, dashVars>>

initiateRun ==
    /\ view = "SUITES"
    /\ MainUIEnabled
    /\ canRun
    /\ activeSuite # <<>>
    /\ LET config == activeSuite[1].targetConfig
       IN  /\ runAppType' = IF config.present /\ config.appType \notin {UNSET, ""}
                             THEN config.appType ELSE "WEB"
           /\ runAddress' = IF config.present /\ config.appAddress # UNSET
                             THEN config.appAddress ELSE ""
           /\ runEmail' = IF config.present /\ config.testEmail # UNSET
                           THEN config.testEmail ELSE ""
           /\ runMode' = IF config.present /\ config.executionMode # UNSET
                          THEN config.executionMode ELSE "MANUAL"
           /\ runAssets' = IF config.present /\ config.mockAssets # <<>>
                            THEN config.mockAssets[1] ELSE <<>>
    /\ showRunModal' = TRUE
    /\ UNCHANGED <<appVars, runnerVars, inflight>>
    /\ UNCHANGED <<activeSuiteId, showPermModal, permUserToAdd, permRoleToAdd>>
    /\ UNCHANGED <<genAll, download, dashVars>>

SetRunMode(m) ==
    /\ RunModalRendered
    /\ m \in {"MANUAL", "AUTOMATED"}
    /\ m # runMode
    /\ runMode' = m
    /\ UNCHANGED <<appVars, runnerVars, inflight>>
    /\ UNCHANGED <<activeSuiteId, showPermModal, permUserToAdd, permRoleToAdd, showRunModal>>
    /\ UNCHANGED draftVars
    /\ UNCHANGED <<genAll, download, dashVars>>

AppTypes == {"WEB", "DESKTOP"}

\* values typed into the address and test-account inputs
Addresses == {"", "https://app.test"}

Emails == {"", "qa@app.test"}

\* names of files offered to the asset input
AssetNames == {"a.txt", "b.txt"}

RECURSIVE SeqsUpTo(_, _)
SeqsUpTo(S, n) ==
    IF n = 0 THEN {<<>>}
    ELSE SeqsUpTo(S, n - 1) \cup
         {Append(q, x) : q \in {r \in SeqsUpTo(S, n - 1) : Len(r) = n - 1}, x \in S}

\* e.target.files of one selection, as names
Batches == SeqsUpTo(AssetNames, MaxBatch) \ {<<>>}

SetRunAppType(t) ==
    /\ RunModalRendered
    /\ t \in AppTypes
    /\ t # runAppType
    /\ runAppType' = t
    /\ UNCHANGED <<appVars, runnerVars, inflight>>
    /\ UNCHANGED <<activeSuiteId, showPermModal, permUserToAdd, permRoleToAdd,
                   showRunModal, runMode, runAddress, runEmail, runAssets>>
    /\ UNCHANGED <<genAll, download, dashVars>>

SetRunAddress(a) ==
    /\ RunModalRendered
    /\ a \in Addresses
    /\ a # runAddress
    /\ runAddress' = a
    /\ UNCHANGED <<appVars, runnerVars, inflight>>
    /\ UNCHANGED <<activeSuiteId, showPermModal, permUserToAdd, permRoleToAdd,
                   showRunModal, runMode, runAppType, runEmail, runAssets>>
    /\ UNCHANGED <<genAll, download, dashVars>>

SetRunEmail(e) ==
    /\ RunModalRendered
    /\ e \in Emails
    /\ e # runEmail
    /\ runEmail' = e
    /\ UNCHANGED <<appVars, runnerVars, inflight>>
    /\ UNCHANGED <<activeSuiteId, showPermModal, permUserToAdd, permRoleToAdd,
                   showRunModal, runMode, runAppType, runAddress, runAssets>>
    /\ UNCHANGED <<genAll, download, dashVars>>

handleAssetSelect(names) ==
    /\ RunModalRendered
    /\ names \in Batches
    /\ LET uniqueNames == SelectSeq(names, LAMBDA n : n \notin Range(runAssets))
       IN  runAssets' = runAssets \o uniqueNames
    /\ UNCHANGED <<appVars, runnerVars, inflight>>
    /\ UNCHANGED <<activeSuiteId, showPermModal, permUserToAdd, permRoleToAdd,
                   showRunModal, runMode, runAppType, runAddress, runEmail>>
    /\ UNCHANGED <<genAll, download, dashVars>>

\* the remove button of a listed asset
removeAsset(name) ==
    /\ RunModalRendered
    /\ name \in Range(runAssets)
    /\ runAssets' = SelectSeq(runAssets, LAMBDA n : n # name)
    /\ UNCHANGED <<appVars, runnerVars, inflight>>
    /\ UNCHANGED <<activeSuiteId, showPermModal, permUserToAdd, permRoleToAdd,
                   showRunModal, runMode, runAppType, runAddress, runEmail>>
    /\ UNCHANGED <<genAll, download, dashVars>>

CloseRunModal ==
    /\ RunModalRendered
    /\ showRunModal' = FALSE
    /\ UNCHANGED <<appVars, runnerVars, inflight>>
    /\ UNCHANGED <<activeSuiteId, showPermModal, permUserToAdd, permRoleToAdd, runMode>>
    /\ UNCHANGED draftVars
    /\ UNCHANGED <<genAll, download, dashVars>>

\* variant: the runner is started on the suite as it was before the draft
\* was stored
confirmRun_RunsStaleSuite ==
    /\ RunModalRendered
    /\ activeSuite # <<>>
    /\ LET updatedSuite ==
             [activeSuite[1] EXCEPT
                 !.targetConfig = TargetConfig(runAppType, runAddress, runEmail,
                                               runMode, <<runAssets>>)]
       IN  /\ suites' = ReplaceSuite(suites, activeSuite[1].id, updatedSuite)
           /\ activeRunSuite' = activeSuite
           /\ view' = IF updatedSuite.cases = <<>> THEN "CRASHED" ELSE "RUNNER"
    /\ SuiteManagerFresh
    /\ runnerReady' = FALSE
    /\ currentCaseIndex' = 0
    /\ results' = EmptyResults
    /\ startTime' = clock
    /\ isAutoRunning' = FALSE
    /\ effectDirty' = FALSE
    /\ advanceTimer' = FALSE
    /\ manualTimers' = 0
    /\ UNCHANGED <<runs, currentUser, notifications, clock, inflight>>
    /\ UNCHANGED <<now, alerts, download, dashVars>>

\* confirmRun, handleRunSuite and the first render of the TestRunner it mounts
confirmRun ==
    /\ RunModalRendered
    /\ activeSuite # <<>>
    /\ LET updatedSuite ==
             [activeSuite[1] EXCEPT
                 !.targetConfig = TargetConfig(runAppType, runAddress, runEmail,
                                               runMode, <<runAssets>>)]
       IN  /\ suites' = ReplaceSuite(suites, activeSuite[1].id, updatedSuite)
           /\ activeRunSuite' = <<updatedSuite>>
           \* currentCase is undefined for a suite without cases and the
           \* first render throws on currentCase.priority
           /\ view' = IF updatedSuite.cases = <<>> THEN "CRASHED" ELSE "RUNNER"
    /\ SuiteManagerFresh
    /\ runnerReady' = FALSE
    /\ currentCaseIndex' = 0
    /\ results' = EmptyResults
    /\ startTime' = clock
    /\ isAutoRunning' = FALSE
    /\ effectDirty' = FALSE
    /\ advanceTimer' = FALSE
    /\ manualTimers' = 0
    /\ UNCHANGED <<runs, currentUser, notifications, clock, inflight>>
    /\ UNCHANGED <<now, alerts, download, dashVars>>

----------------------------------------------------------------------------
\* SuiteManager: case generation

\* setPrompt(''), setImportMode(false), setAppContextValue(''),
\* setTestEmail(''), setAppType('WEB')
resetModalState ==
    /\ prompt' = ""
    /\ importMode' = FALSE
    /\ appContextValue' = ""
    /\ testEmail' = ""
    /\ appType' = "WEB"

\* the "AI generate" button, rendered when canWrite
openGenerateModal ==
    /\ view = "SUITES"
    /\ MainUIEnabled
    /\ activeSuite # <<>>
    /\ canWrite
    /\ prompt' = ""
    /\ importMode' = FALSE
    /\ appContextValue' = ""
    /\ testEmail' = ""
    /\ appType' = "WEB"
    /\ showPromptModal' = TRUE
    /\ UNCHANGED <<appVars, runnerVars, inflight>>
    /\ UNCHANGED <<activeSuiteId, showPermModal, permUserToAdd, permRoleToAdd,
                   showRunModal, runMode>>
    /\ UNCHANGED draftVars
    /\ UNCHANGED <<isGenerating, genOpRef, genPending, now, alerts, download, dashVars>>

\* the "import data" button, rendered when canWrite
openImportModal ==
    /\ view = "SUITES"
    /\ MainUIEnabled
    /\ activeSuite # <<>>
    /\ canWrite
    /\ prompt' = ""
    /\ importMode' = TRUE
    /\ appContextValue' = ""
    /\ testEmail' = ""
    /\ appType' = "WEB"
    /\ showPromptModal' = TRUE
    /\ UNCHANGED <<appVars, runnerVars, inflight>>
    /\ UNCHANGED <<activeSuiteId, showPermModal, permUserToAdd, permRoleToAdd,
                   showRunModal, runMode>>
    /\ UNCHANGED draftVars
    /\ UNCHANGED <<isGenerating, genOpRef, genPending, now, alerts, download, dashVars>>

\* texts typed into the description of the feature
Prompts == {"", "login"}

\* the textarea, disabled while generating
SetPrompt(p) ==
    /\ PromptModalRendered
    /\ ~isGenerating
    /\ p \in Prompts
    /\ p # prompt
    /\ prompt' = p
    /\ UNCHANGED <<appVars, smVars, runnerVars, inflight>>
    /\ UNCHANGED <<showPromptModal, isGenerating, genOpRef, importMode, appType,
                   appContextValue, testEmail, genPending, now, alerts, download, dashVars>>

\* the inputs of the target application, rendered unless importMode
SetAppType(t) ==
    /\ PromptModalRendered
    /\ ~importMode
    /\ t \in AppTypes
    /\ t # appType
    /\ appType' = t
    /\ UNCHANGED <<appVars, smVars, runnerVars, inflight>>
    /\ UNCHANGED <<showPromptModal, isGenerating, genOpRef, prompt, importMode,
                   appContextValue, testEmail, genPending, now, alerts, download, dashVars>>

SetAppContextValue(a) ==
    /\ PromptModalRendered
    /\ ~importMode
    /\ a \in Addresses
    /\ a # appContextValue
    /\ appContextValue' = a
    /\ UNCHANGED <<appVars, smVars, runnerVars, inflight>>
    /\ UNCHANGED <<showPromptModal, isGenerating, genOpRef, prompt, importMode,
                   appType, testEmail, genPending, now, alerts, download, dashVars>>

SetTestEmail(e) ==
    /\ PromptModalRendered
    /\ ~importMode
    /\ e \in Emails
    /\ e # testEmail
    /\ testEmail' = e
    /\ UNCHANGED <<appVars, smVars, runnerVars, inflight>>
    /\ UNCHANGED <<showPromptModal, isGenerating, genOpRef, prompt, importMode,
                   appType, appContextValue, genPending, now, alerts, download, dashVars>>

\* handleGenerateCases up to the await: the token is taken and the request
\* leaves with the values of the render that issued it
handleGenerateCases ==
    /\ PromptModalRendered
    /\ ~isGenerating
    /\ canWrite
    /\ prompt # ""
    /\ activeSuiteId # NoSuiteId
    /\ now <= MaxGenRequests
    /\ LET opId == now
       IN  /\ genOpRef' = opId
           /\ genPending' = genPending \cup
                 {[opId |-> opId, instance |-> "mounted", ref |-> 0,
                   activeSuiteId |-> activeSuiteId, importMode |-> importMode,
                   appType |-> appType, appContextValue |-> appContextValue,
                   testEmail |-> testEmail]}
    /\ isGenerating' = TRUE
    /\ now' = now + 1
    /\ UNCHANGED <<appVars, smVars, runnerVars, inflight>>
    /\ UNCHANGED <<showPromptModal, prompt, importMode, appType,
                   appContextValue, testEmail, alerts, download, dashVars>>

handleCancelGeneration ==
    /\ PromptModalRendered
    /\ genOpRef' = 0
    /\ isGenerating' = FALSE
    /\ showPromptModal' = FALSE
    /\ UNCHANGED <<appVars, smVars, runnerVars, inflight>>
    /\ UNCHANGED <<prompt, importMode, appType, appContextValue, testEmail,
                   genPending, now, alerts, download, dashVars>>

\* generateTestCases: throws, or returns a list of new cases
GenOutcomes ==
    {[threw |-> TRUE, count |-> 0]} \cup
    {[threw |-> FALSE, count |-> n] : n \in 0..MaxNewCases}

AllCaseIds(ss) == UNION {Range(ss[i].cases) : i \in 1..Len(ss)}

\* crypto.randomUUID() for each returned case: ids no case has
NewCases(ss, n) ==
    LET top == IF AllCaseIds(ss) = {} THEN 0
               ELSE CHOOSE m \in AllCaseIds(ss) : \A k \in AllCaseIds(ss) : k <= m
    IN  [i \in 1..n |-> top + i]

\* the updater given to setSuites, applied to the collection as it is when
\* the update runs
ApplyGenerated(prevSuites, req, n) ==
    [i \in 1..Len(prevSuites) |->
        IF prevSuites[i].id = req.activeSuiteId
        THEN [prevSuites[i] EXCEPT
                 !.cases = prevSuites[i].cases \o NewCases(prevSuites, n),
                 !.targetConfig =
                     IF ~prevSuites[i].targetConfig.present /\ ~req.importMode
                     THEN TargetConfig(req.appType, req.appContextValue,
                                       req.testEmail, UNSET, <<>>)
                     ELSE prevSuites[i].targetConfig]
        ELSE prevSuites[i]]

\* variant: the response is applied whatever the current token is
TokenCurrent_Always(req) == TRUE

\* genOpRef.current === opId, read from the ref of the issuing instance
TokenCurrent(req) ==
    (IF req.instance = "mounted" THEN genOpRef ELSE req.ref) = req.opId

\* variant: the generating flag is reset on success only
GenerationResolves_NoFinally(req, outcome) ==
    /\ req \in genPending
    /\ outcome \in GenOutcomes
    /\ genPending' = genPending \ {req}
    /\ IF ~TokenCurrent(req)
       THEN UNCHANGED <<suites, alerts, genVars>>
       ELSE IF outcome.threw
       THEN /\ alerts' = alerts + 1
            /\ UNCHANGED <<suites, genVars>>
       ELSE /\ suites' = ApplyGenerated(suites, req, outcome.count)
            /\ UNCHANGED alerts
            /\ IF req.instance = "mounted"
               THEN /\ showPromptModal' = FALSE
                    /\ resetModalState
                    /\ isGenerating' = FALSE
                    /\ UNCHANGED genOpRef
               ELSE UNCHANGED genVars
    /\ UNCHANGED <<view, runs, activeRunSuite, currentUser, notifications, clock>>
    /\ UNCHANGED <<smVars, runnerVars, inflight, now, download, dashVars>>

\* the continuation of handleGenerateCases after the await; the state
\* setters of an unmounted SuiteManager have no effect, setSuites and alert
\* belong to the App and the window
GenerationResolves(req, outcome) ==
    /\ req \in genPending
    /\ outcome \in GenOutcomes
    /\ genPending' = genPending \ {req}
    /\ IF ~TokenCurrent(req)
       THEN UNCHANGED <<suites, alerts, genVars>>
       ELSE IF outcome.threw
       THEN /\ alerts' = alerts + 1
            /\ UNCHANGED suites
            /\ IF req.instance = "mounted"
               THEN /\ isGenerating' = FALSE
                    /\ UNCHANGED <<showPromptModal, genOpRef, prompt, importMode,
                                   appType, appContextValue, testEmail>>
               ELSE UNCHANGED genVars
       ELSE /\ suites' = ApplyGenerated(suites, req, outcome.count)
            /\ UNCHANGED alerts
            /\ IF req.instance = "mounted"
               THEN /\ showPromptModal' = FALSE
                    /\ resetModalState
                    /\ isGenerating' = FALSE
                    /\ UNCHANGED genOpRef
               ELSE UNCHANGED genVars
    /\ UNCHANGED <<view, runs, activeRunSuite, currentUser, notifications, clock>>
    /\ UNCHANGED <<smVars, runnerVars, inflight, now, download, dashVars>>

----------------------------------------------------------------------------
\* TestRunner

RunnerMounted == view = "RUNNER" /\ activeRunSuite # <<>>

suite == activeRunSuite[1]

\* suite.cases[currentCaseIndex], 0-based
currentCase == suite.cases[currentCaseIndex + 1]

isLastCase == currentCaseIndex = Len(suite.cases) - 1

isAutomatedMode ==
    suite.targetConfig.present /\ suite.targetConfig.executionMode = "AUTOMATED"

\* the init effect, run after the first render
InitEffect ==
    /\ RunnerMounted
    /\ ~runnerReady
    /\ runnerReady' = TRUE
    /\ results' = [c \in Range(suite.cases) |->
                     [caseId |-> c, status |-> "IDLE", notes |-> NoNotes,
                      timestamp |-> clock]]
    /\ isAutoRunning' = isAutomatedMode
    /\ effectDirty' = isAutomatedMode
    /\ UNCHANGED <<appVars, smVars, inflight>>
    /\ UNCHANGED <<currentCaseIndex, startTime, advanceTimer, manualTimers>>
    /\ UNCHANGED <<genAll, download, dashVars>>

\* variant: the new mapping is built from the initial entries, not from the
\* recorded ones
StatusUpdate_ResetsOthers(res, c, status, notes) ==
    [d \in DOMAIN res |->
        IF d = c
        THEN [caseId |-> res[c].caseId,
              status |-> status,
              notes |-> IF notes # NoNotes THEN notes ELSE res[c].notes,
              timestamp |-> clock]
        ELSE [res[d] EXCEPT !.status = "IDLE"]]

\* results after handleStatus(status, notes) of a render whose results and
\* current case are res and c
StatusUpdate(res, c, status, notes) ==
    [res EXCEPT ![c] = [caseId |-> res[c].caseId,
                        status |-> status,
                        notes |-> IF notes # NoNotes THEN notes ELSE res[c].notes,
                        timestamp |-> clock]]

\* the three verdict buttons of manual mode
handleStatus(status) ==
    /\ RunnerMounted
    /\ runnerReady
    /\ ~isAutomatedMode
    /\ status \in Verdicts
    /\ isLastCase \/ manualTimers < MaxTimers
    /\ results' = StatusUpdate(results, currentCase, status, NoNotes)
    /\ manualTimers' = IF ~isLastCase THEN manualTimers + 1 ELSE manualTimers
    /\ UNCHANGED <<appVars, smVars, inflight>>
    /\ UNCHANGED <<runnerReady, currentCaseIndex, startTime,
                   isAutoRunning, effectDirty, advanceTimer>>
    /\ UNCHANGED <<genAll, download, dashVars>>

\* setTimeout(() => setCurrentCaseIndex(prev => prev + 1), 200)
ManualTimerFire ==
    /\ RunnerMounted
    /\ manualTimers > 0
    /\ manualTimers' = manualTimers - 1
    /\ currentCaseIndex' = currentCaseIndex + 1
    \* past the last case currentCase is undefined and the render throws
    /\ view' = IF currentCaseIndex + 1 >= Len(suite.cases) THEN "CRASHED" ELSE view
    /\ UNCHANGED <<suites, runs, activeRunSuite, currentUser, notifications, clock>>
    /\ UNCHANGED <<smVars, inflight>>
    /\ UNCHANGED <<runnerReady, results, startTime, isAutoRunning,
                   effectDirty, advanceTimer>>
    /\ UNCHANGED <<genAll, download, dashVars>>

\* cursor moves change a dependency of the automation effect
MoveCursor(idx) ==
    /\ currentCaseIndex' = idx
    /\ effectDirty' = isAutomatedMode
    /\ UNCHANGED <<appVars, smVars, inflight>>
    /\ UNCHANGED <<runnerReady, results, startTime, isAutoRunning,
                   advanceTimer, manualTimers>>
    /\ UNCHANGED <<genAll, download, dashVars>>

Max(a, b) == IF a >= b THEN a ELSE b

Min(a, b) == IF a <= b THEN a ELSE b

NavigateBack ==
    /\ RunnerMounted
    /\ runnerReady
    /\ ~(currentCaseIndex = 0 \/ isAutoRunning)
    /\ MoveCursor(Max(0, currentCaseIndex - 1))

NavigateForward ==
    /\ RunnerMounted
    /\ runnerReady
    /\ ~(isLastCase \/ isAutoRunning)
    /\ MoveCursor(Min(Len(suite.cases) - 1, currentCaseIndex + 1))

\* variant: the case list is clickable in every mode
ClickCase_AnyMode(idx) ==
    /\ RunnerMounted
    /\ runnerReady
    /\ idx \in 0..(Len(suite.cases) - 1)
    /\ idx # currentCaseIndex
    /\ MoveCursor(idx)

\* onClick={() => !isAutomatedMode && setCurrentCaseIndex(idx)}
ClickCase(idx) ==
    /\ RunnerMounted
    /\ runnerReady
    /\ idx \in 0..(Len(suite.cases) - 1)
    /\ idx # currentCaseIndex
    /\ ~isAutomatedMode
    /\ MoveCursor(idx)

----------------------------------------------------------------------------
\* TestRunner: automated execution

\* variant: a failed call is reported as a FAILED verdict carrying the error
simulateTestExecution_FailsCase(apiOutcome) ==
    IF apiOutcome = "error"
    THEN [status |-> "FAILED", notes |-> "error"]
    ELSE [status |-> apiOutcome, notes |-> "log"]

\* simulateTestExecution: the verdict and log of the service, or the
\* SKIPPED fallback when the call fails (apiOutcome = "error")
simulateTestExecution(apiOutcome) ==
    IF apiOutcome = "error"
    THEN [status |-> "SKIPPED", notes |-> FallbackNote]
    ELSE [status |-> apiOutcome, notes |-> "log"]

ApiOutcomes == Verdicts \cup {"error"}

\* variant: the advance to the next case is scheduled together with the
\* request instead of after its result has been recorded
AutomationEffect_AdvanceWithoutResult ==
    /\ RunnerMounted
    /\ runnerReady
    /\ effectDirty
    /\ IF ~isAutomatedMode \/ ~isAutoRunning
       THEN /\ effectDirty' = FALSE
            /\ advanceTimer' = FALSE
            /\ UNCHANGED <<isAutoRunning, inflight>>
       ELSE /\ inflight' = IF results[currentCase].status # "IDLE" THEN inflight
                           ELSE inflight \cup
                                {[instance |-> "mounted", case |-> currentCase,
                                  closure |-> results]}
            /\ IF ~isLastCase
               THEN /\ advanceTimer' = TRUE
                    /\ effectDirty' = FALSE
                    /\ UNCHANGED isAutoRunning
               ELSE /\ advanceTimer' = FALSE
                    /\ effectDirty' = (results[currentCase].status # "IDLE")
                    /\ isAutoRunning' = (results[currentCase].status = "IDLE")
    /\ UNCHANGED <<appVars, smVars>>
    /\ UNCHANGED <<runnerReady, currentCaseIndex, results, startTime,
                   manualTimers>>
    /\ UNCHANGED <<genAll, download, dashVars>>

\* the automation effect; the cleanup of its previous run clears the timer
AutomationEffect ==
    /\ RunnerMounted
    /\ runnerReady
    /\ effectDirty
    /\ IF ~isAutomatedMode \/ ~isAutoRunning
       THEN /\ effectDirty' = FALSE
            /\ advanceTimer' = FALSE
            /\ UNCHANGED <<isAutoRunning, inflight>>
       ELSE IF results[currentCase].status # "IDLE"
       THEN IF ~isLastCase
            THEN /\ advanceTimer' = TRUE
                 /\ effectDirty' = FALSE
                 /\ UNCHANGED <<isAutoRunning, inflight>>
            ELSE /\ isAutoRunning' = FALSE
                 /\ effectDirty' = TRUE
                 /\ advanceTimer' = FALSE
                 /\ UNCHANGED inflight
       ELSE \* runSimulation()
            /\ inflight' = inflight \cup
                  {[instance |-> "mounted", case |-> currentCase, closure |-> results]}
            /\ effectDirty' = FALSE
            /\ advanceTimer' = FALSE
            /\ UNCHANGED isAutoRunning
    /\ UNCHANGED <<appVars, smVars>>
    /\ UNCHANGED <<runnerReady, currentCaseIndex, results, startTime,
                   manualTimers>>
    /\ UNCHANGED <<genAll, download, dashVars>>

\* setTimeout(() => setCurrentCaseIndex(prev => prev + 1), 1500)
AdvanceTimerFire ==
    /\ RunnerMounted
    /\ advanceTimer
    /\ advanceTimer' = FALSE
    /\ currentCaseIndex' = currentCaseIndex + 1
    /\ effectDirty' = TRUE
    /\ UNCHANGED <<appVars, smVars, inflight>>
    /\ UNCHANGED <<runnerReady, results, startTime, isAutoRunning,
                   manualTimers>>
    /\ UNCHANGED <<genAll, download, dashVars>>

\* the instance that issued the request is still the mounted one
RequestLive(req) == RunnerMounted /\ req.instance = "mounted"

\* variant: the continuation writes into whichever runner is mounted
SimulationResolves_AnyInstance(req, apiOutcome) ==
    /\ req \in inflight
    /\ apiOutcome \in ApiOutcomes
    /\ inflight' = inflight \ {req}
    /\ LET result == simulateTestExecution(apiOutcome)
       IN  IF RunnerMounted /\ runnerReady /\ req.case \in DOMAIN results
           THEN /\ results' = StatusUpdate(results, req.case,
                                           result.status, result.notes)
                /\ effectDirty' = TRUE
           ELSE UNCHANGED <<results, effectDirty>>
    /\ UNCHANGED <<appVars, smVars>>
    /\ UNCHANGED <<runnerReady, currentCaseIndex, startTime,
                   isAutoRunning, advanceTimer, manualTimers>>
    /\ UNCHANGED <<genAll, download, dashVars>>

\* the continuation of runSimulation after the await
SimulationResolves(req, apiOutcome) ==
    /\ req \in inflight
    /\ apiOutcome \in ApiOutcomes
    /\ inflight' = inflight \ {req}
    /\ LET result == simulateTestExecution(apiOutcome)
       IN  IF RequestLive(req)
           THEN /\ results' = StatusUpdate(req.closure, req.case,
                                           result.status, result.notes)
                /\ effectDirty' = TRUE
           ELSE UNCHANGED <<results, effectDirty>>
    /\ UNCHANGED <<appVars, smVars>>
    /\ UNCHANGED <<runnerReady, currentCaseIndex, startTime,
                   isAutoRunning, advanceTimer, manualTimers>>
    /\ UNCHANGED <<genAll, download, dashVars>>

----------------------------------------------------------------------------
\* TestRunner: completion and cancellation

CountStatus(res, st) == Cardinality({c \in DOMAIN res : res[c].status = st})

\* total > 0 ? (passed / total) * 100 : 0, kept as an exact fraction
PassRatio(total, passed) ==
    IF total > 0 THEN [num |-> passed * 100, den |-> total]
    ELSE [num |-> 0, den |-> 1]

\* variant: a run passes only above the threshold
RunNotification_StrictThreshold(run) ==
    LET total    == Cardinality(DOMAIN run.results)
        passed   == CountStatus(run.results, "PASSED")
        passRate == PassRatio(total, passed)
    IN  [suiteName |-> run.suiteName,
         total     |-> total,
         passed    |-> passed,
         passRate  |-> passRate,
         isSuccess |-> passRate.num > 90 * passRate.den,
         failCount |-> CountStatus(run.results, "FAILED")]

\* the notification of handleRunComplete
RunNotification(run) ==
    LET total    == Cardinality(DOMAIN run.results)
        passed   == CountStatus(run.results, "PASSED")
        passRate == PassRatio(total, passed)
    IN  [suiteName |-> run.suiteName,
         total     |-> total,
         passed    |-> passed,
         passRate  |-> passRate,
         isSuccess |-> passRate.num >= 90 * passRate.den,
         failCount |-> CountStatus(run.results, "FAILED")]

\* a row of the Dashboard's list of recent runs
RecentRunRow(run) ==
    LET totalCases == Cardinality(DOMAIN run.results)
        passed     == CountStatus(run.results, "PASSED")
        passRate   == PassRatio(totalCases, passed)
    IN  [totalCases  |-> totalCases,
         passed      |-> passed,
         failed      |-> CountStatus(run.results, "FAILED"),
         passRate    |-> passRate,
         isRunPassed |-> passRate.num >= 90 * passRate.den]

\* setRuns([run, ...runs]) and the Dashboard render that follows
handleRunComplete(run) ==
    /\ runs' = DashboardRender(<<run>> \o runs)
    /\ activeRunSuite' = <<>>
    /\ view' = "DASHBOARD"
    /\ notifications' = <<RunNotification(run)>> \o notifications

\* variant: the "finish" button is rendered on every case
FinishShown_Always == TRUE

\* variant: the "finish" button of an automated run does not wait for the
\* loop to stop
FinishShown_LastCaseOnly == isLastCase

\* the "finish" button is rendered
FinishShown ==
    IF isAutomatedMode THEN isLastCase /\ ~isAutoRunning ELSE isLastCase

handleFinish ==
    /\ RunnerMounted
    /\ runnerReady
    /\ FinishShown
    /\ Len(runs) < MaxRuns
    /\ handleRunComplete([id        |-> clock,
                          suiteId   |-> suite.id,
                          suiteName |-> suite.name,
                          startTime |-> startTime,
                          endTime   |-> clock,
                          status    |-> "COMPLETED",
                          results   |-> results])
    /\ clock' = clock + 1
    /\ RunnerGone
    /\ UNCHANGED <<suites, currentUser, smVars>>
    /\ UNCHANGED <<genAll, download, dashVars>>

\* result?.status || 'SKIPPED': every recorded status is a non-empty string
ExportStatus(res, c) ==
    IF c \notin DOMAIN res THEN "SKIPPED" ELSE res[c].status

\* result?.notes ? ... : ''
ExportNotes(res, c) ==
    IF c \notin DOMAIN res \/ res[c].notes = NoNotes THEN "" ELSE res[c].notes

\* the rows below the header line, as exportResults writes them
ExportRows(cases, res) ==
    [i \in 1..Len(cases) |->
        [caseId |-> cases[i],
         status |-> ExportStatus(res, cases[i]),
         notes  |-> ExportNotes(res, cases[i])]]

\* the export button, rendered next to the "finish" button
exportResults ==
    /\ RunnerMounted
    /\ runnerReady
    /\ FinishShown
    /\ download' = ExportRows(suite.cases, results)
    /\ UNCHANGED <<appVars, smVars, runnerVars, inflight, genAll, dashVars>>

\* variant: an abandoned run is kept in the history as CANCELLED
handleRunCancel_RecordsRun ==
    /\ RunnerMounted
    /\ activeRunSuite' = <<>>
    /\ view' = "SUITES"
    /\ SuiteManagerFresh
    /\ RunnerGone
    /\ runs' = IF Len(runs) < MaxRuns
               THEN <<[id        |-> clock,
                       suiteId   |-> suite.id,
                       suiteName |-> suite.name,
                       startTime |-> startTime,
                       endTime   |-> clock,
                       status    |-> "CANCELLED",
                       results   |-> results]>> \o runs
               ELSE runs
    /\ UNCHANGED <<suites, currentUser, notifications, clock>>
    /\ UNCHANGED <<now, alerts, download, dashVars>>

handleRunCancel ==
    /\ RunnerMounted
    /\ activeRunSuite' = <<>>
    /\ view' = "SUITES"
    /\ SuiteManagerFresh
    /\ RunnerGone
    /\ UNCHANGED <<suites, runs, currentUser, notifications, clock>>
    /\ UNCHANGED <<now, alerts, download, dashVars>>

----------------------------------------------------------------------------
\* Specifications

\* access management and user switching
NextAccess ==
    \/ \E v \in {"DASHBOARD", "SUITES"} : Navigate(v)
    \/ \E u \in Users : SwitchUser(u)
    \/ \E id \in 1..MaxSuites : SelectSuite(id)
    \/ createSuite
    \/ OpenPermModal
    \/ ClosePermModal
    \/ \E u \in Users \cup {NoUser} : SetPermUserToAdd(u)
    \/ \E r \in Roles : SetPermRoleToAdd(r)
    \/ handleAddPermission
    \/ \E u \in Users, r \in Roles : handleChangePermission(u, r)
    \/ \E u \in Users, b \in BOOLEAN : handleRemovePermission(u, b)

\* configuring, executing, completing and cancelling runs
NextRun ==
    \/ \E v \in {"DASHBOARD", "SUITES"} : Navigate(v)
    \/ \E id \in 1..MaxSuites : SelectSuite(id)
    \/ initiateRun
    \/ \E m \in {"MANUAL", "AUTOMATED"} : SetRunMode(m)
    \/ CloseRunModal
    \/ confirmRun
    \/ InitEffect
    \/ \E st \in Verdicts : handleStatus(st)
    \/ ManualTimerFire
    \/ NavigateBack
    \/ NavigateForward
    \/ \E idx \in 0..NumCases : ClickCase(idx)
    \/ AutomationEffect
    \/ AdvanceTimerFire
    \/ \E req \in inflight, o \in ApiOutcomes : SimulationResolves(req, o)
    \/ handleFinish
    \/ handleRunCancel

\* manual runs together with edits of the suite and of its permissions
NextHistory ==
    \/ \E v \in {"DASHBOARD", "SUITES"} : Navigate(v)
    \/ \E id \in 1..MaxSuites : SelectSuite(id)
    \/ \E n \in SuiteNames : RenameSuite(n)
    \/ OpenPermModal
    \/ ClosePermModal
    \/ \E u \in Users, r \in Roles : handleChangePermission(u, r)
    \/ initiateRun
    \/ CloseRunModal
    \/ confirmRun
    \/ InitEffect
    \/ \E st \in Verdicts : handleStatus(st)
    \/ ManualTimerFire
    \/ NavigateBack
    \/ NavigateForward
    \/ handleFinish
    \/ handleRunCancel

\* access management together with the operations the capabilities gate
NextGate ==
    \/ NextAccess
    \/ \E n \in SuiteNames : RenameSuite(n)
    \/ \E id \in 1..MaxSuites, b \in BOOLEAN : deleteSuite(id, b)
    \/ initiateRun
    \/ CloseRunModal

SpecGate == Init /\ [][NextGate]_vars

\* generation of cases
NextGen ==
    \/ \E v \in {"DASHBOARD", "SUITES"} : Navigate(v)
    \/ \E id \in SuiteIds(suites) : SelectSuite(id)
    \/ openGenerateModal
    \/ openImportModal
    \/ \E p \in Prompts : SetPrompt(p)
    \/ \E t \in AppTypes : SetAppType(t)
    \/ \E a \in Addresses : SetAppContextValue(a)
    \/ \E e \in Emails : SetTestEmail(e)
    \/ handleGenerateCases
    \/ handleCancelGeneration
    \/ \E req \in genPending, o \in GenOutcomes : GenerationResolves(req, o)

\* access management of the super administrator on the Dashboard
NextDashboard ==
    \/ \E id \in SuiteIds(suites) : Dashboard_openAccessModal(id)
    \/ Dashboard_closeAccessModal
    \/ \E u \in Users \cup {NoUser} : Dashboard_setPermUserToAdd(u)
    \/ \E r \in Roles : Dashboard_setPermRoleToAdd(r)
    \/ Dashboard_handleAddPermission
    \/ \E u \in Users, r \in Roles : Dashboard_handleChangePermission(u, r)
    \/ \E u \in Users : Dashboard_handleRemovePermission(u)

Next ==
    NextGate \/ NextRun \/ NextHistory \/ NextGen \/ exportResults
        \/ NextDashboard

Spec == Init /\ [][Next]_vars

SpecAccess == Init /\ [][NextAccess]_vars

SpecRun == Init /\ [][NextRun]_vars

SpecHistory == Init /\ [][NextHistory]_vars

\* automated runs; manual runs are started and finished but not judged
NextAuto ==
    \/ \E v \in {"DASHBOARD", "SUITES"} : Navigate(v)
    \/ \E id \in 1..MaxSuites : SelectSuite(id)
    \/ initiateRun
    \/ \E m \in {"MANUAL", "AUTOMATED"} : SetRunMode(m)
    \/ CloseRunModal
    \/ confirmRun
    \/ InitEffect
    \/ NavigateBack
    \/ NavigateForward
    \/ AutomationEffect
    \/ AdvanceTimerFire
    \/ \E req \in inflight, o \in ApiOutcomes : SimulationResolves(req, o)
    \/ handleFinish
    \/ handleRunCancel

\* effects, timers and pending promises are run by the browser's event loop
FairSpecAuto ==
    /\ Init /\ [][NextAuto]_vars
    /\ WF_vars(InitEffect)
    /\ WF_vars(AutomationEffect)
    /\ WF_vars(AdvanceTimerFire)
    /\ WF_vars(\E req \in inflight, o \in ApiOutcomes : SimulationResolves(req, o))

\* a suite of t cases, as produced by case generation
SuiteOfSize(t) ==
    [MOCK_SUITES[1] EXCEPT !.cases = CaseIds(t),
                           !.targetConfig = TargetConfig("WEB", "", "", "MANUAL",
                                                         <<<<>>>>)]

\* the results of a manual run of t cases in which the first p cases were
\* judged PASSED, the next f FAILED, the next k SKIPPED and the rest left IDLE
ResultsOfCounts(t, p, f, k) ==
    [c \in 1..t |->
        [caseId |-> c,
         status |-> IF c <= p THEN "PASSED"
                    ELSE IF c <= p + f THEN "FAILED"
                    ELSE IF c <= p + f + k THEN "SKIPPED"
                    ELSE "IDLE",
         notes |-> NoNotes,
         timestamp |-> 1]]

\* a record without result entries, read from storage
STORED_EMPTY_RUN ==
    [id |-> 0, suiteId |-> 1, suiteName |-> "auth flow", startTime |-> 0,
     endTime |-> 0, status |-> "COMPLETED", results |-> EmptyResults]

\* a manual run of a suite of up to MaxEntries cases, on its last case
InitRate ==
    /\ view = "RUNNER"
    /\ \E t \in 1..MaxEntries :
          /\ suites = <<SuiteOfSize(t)>>
          /\ activeRunSuite = <<SuiteOfSize(t)>>
          /\ currentCaseIndex = t - 1
          /\ \E p \in 0..t : \E f \in 0..(t - p) : \E k \in 0..(t - p - f) :
                results = ResultsOfCounts(t, p, f, k)
    /\ runs \in {<<>>, <<STORED_EMPTY_RUN>>}
    /\ currentUser = MOCK_USERS[2]
    /\ notifications = <<>>
    /\ clock = 1
    /\ activeSuiteId = NoSuiteId
    /\ showPermModal = FALSE
    /\ permUserToAdd = NoUser
    /\ permRoleToAdd = "MEMBER"
    /\ showRunModal = FALSE
    /\ runMode = "MANUAL"
    /\ runAppType = "WEB"
    /\ runAddress = ""
    /\ runEmail = ""
    /\ runAssets = <<>>
    /\ runnerReady = TRUE
    /\ startTime = 1
    /\ isAutoRunning = FALSE
    /\ effectDirty = FALSE
    /\ advanceTimer = FALSE
    /\ manualTimers = 0
    /\ inflight = {}
    /\ GenerationIdle

NextRate ==
    \/ handleFinish
    \/ \E v \in {"DASHBOARD", "SUITES"} : Navigate(v)

\* completion and classification of runs of every size and outcome
SpecRate == InitRate /\ [][NextRate]_vars

\* configurations a suite can hold before its first run: none, or the one
\* written by case generation (no execution mode, no asset list)
StoredConfigs ==
    {NoConfig} \cup
    {TargetConfig(t, a, e, UNSET, <<>>) : t \in AppTypes, a \in Addresses, e \in Emails}

\* a suite of another team, invisible to the current user
OTHER_SUITE ==
    [id |-> 2, name |-> "other", cases |-> CaseIds(1),
     hasPermissions |-> TRUE,
     permissions |-> SetEntry(EmptyMap, "u2", "ADMIN"),
     targetConfig |-> TargetConfig("DESKTOP", "C:/app", UNSET, "AUTOMATED",
                                   <<<<"z.txt">>>>)]

\* the suite view with a runnable suite selected
InitDialog ==
    /\ view = "SUITES"
    /\ suites \in {<<[MOCK_SUITES[1] EXCEPT !.targetConfig = c], OTHER_SUITE>> :
                      c \in StoredConfigs}
    /\ runs = <<>>
    /\ activeRunSuite = <<>>
    /\ currentUser = MOCK_USERS[2]
    /\ notifications = <<>>
    /\ clock = 1
    /\ activeSuiteId = 1
    /\ showPermModal = FALSE
    /\ permUserToAdd = NoUser
    /\ permRoleToAdd = "MEMBER"
    /\ showRunModal = FALSE
    /\ runMode = "MANUAL"
    /\ runAppType = "WEB"
    /\ runAddress = ""
    /\ runEmail = ""
    /\ runAssets = <<>>
    /\ runnerReady = FALSE
    /\ currentCaseIndex = 0
    /\ results = EmptyResults
    /\ startTime = 0
    /\ isAutoRunning = FALSE
    /\ effectDirty = FALSE
    /\ advanceTimer = FALSE
    /\ manualTimers = 0
    /\ inflight = {}
    /\ GenerationIdle

NextDialog ==
    \/ \E id \in SuiteIds(suites) : SelectSuite(id)
    \/ initiateRun
    \/ \E t \in AppTypes : SetRunAppType(t)
    \/ \E a \in Addresses : SetRunAddress(a)
    \/ \E e \in Emails : SetRunEmail(e)
    \/ \E m \in {"MANUAL", "AUTOMATED"} : SetRunMode(m)
    \/ \E names \in Batches : handleAssetSelect(names)
    \/ \E name \in AssetNames : removeAsset(name)
    \/ CloseRunModal
    \/ confirmRun
    \/ handleRunCancel

\* the run dialog: seeding, editing and confirming the draft
SpecDialog == InitDialog /\ [][NextDialog]_vars

\* two suites, one of them of another team
InitPerm == InitDialog /\ suites = <<MOCK_SUITES[1], OTHER_SUITE>>

\* both access dialogs: the one of SuiteManager and the one of the Dashboard
NextPerm ==
    \/ \E v \in {"DASHBOARD", "SUITES"} : Navigate(v)
    \/ \E u \in Users : SwitchUser(u)
    \/ \E id \in SuiteIds(suites) : SelectSuite(id)
    \/ OpenPermModal
    \/ ClosePermModal
    \/ \E u \in Users \cup {NoUser} : SetPermUserToAdd(u)
    \/ \E r \in Roles : SetPermRoleToAdd(r)
    \/ handleAddPermission
    \/ \E u \in Users, r \in Roles : handleChangePermission(u, r)
    \/ \E u \in Users, b \in BOOLEAN : handleRemovePermission(u, b)
    \/ NextDashboard

SpecPerm == InitPerm /\ [][NextPerm]_vars

\* the user taken through the permission cycle
CycleUser == "u2"

\* every mapping from some of the users in S to roles
PermMaps(S) == UNION {[D -> Roles] : D \in SUBSET S}

\* the suite createSuite makes, after edits of its mapping
CreatedSuite(perms) ==
    [id |-> 1, name |-> NewSuiteName, cases |-> <<>>,
     hasPermissions |-> TRUE, permissions |-> perms, targetConfig |-> NoConfig]

\* the access dialog is open on a suite whose mapping has no entry for
\* CycleUser, who is chosen in the add-user selector with role MEMBER
InitCycle ==
    /\ view = "SUITES"
    /\ suites \in {<<CreatedSuite(perms)>> : perms \in PermMaps(Users \ {CycleUser})}
                  \cup {LEGACY_SUITES}
    /\ currentUser \in Users \ {CycleUser}
    /\ activeSuiteId = 1
    /\ RoleOf(currentUser, suites[1]) = "ADMIN"
    /\ showPermModal = TRUE
    /\ permUserToAdd = CycleUser
    /\ permRoleToAdd = "MEMBER"
    /\ showRunModal = FALSE
    /\ runMode = "MANUAL"
    /\ runAppType = "WEB"
    /\ runAddress = ""
    /\ runEmail = ""
    /\ runAssets = <<>>
    /\ runs = <<>>
    /\ activeRunSuite = <<>>
    /\ notifications = <<>>
    /\ clock = 1
    /\ runnerReady = FALSE
    /\ currentCaseIndex = 0
    /\ results = EmptyResults
    /\ startTime = 0
    /\ isAutoRunning = FALSE
    /\ effectDirty = FALSE
    /\ advanceTimer = FALSE
    /\ manualTimers = 0
    /\ inflight = {}
    /\ GenerationIdle

NextCycle ==
    \/ handleAddPermission
    \/ handleChangePermission(CycleUser, "ADMIN")
    \/ \E b \in BOOLEAN : handleRemovePermission(CycleUser, b)
    \/ OpenPermModal
    \/ ClosePermModal
    \/ \E u \in Users : SwitchUser(u)

\* add as MEMBER, change to ADMIN, remove, seen by every user
SpecCycle == InitCycle /\ [][NextCycle]_vars

\* a request of an earlier, cancelled run of the suite that has not resolved
ORPHAN_REQUEST == [instance |-> "unmounted", case |-> 1, closure |-> EmptyResults]

\* the run dialog is open on a suite of up to NumCases cases
InitRunner ==
    /\ view = "SUITES"
    /\ \E t \in 0..NumCases :
          /\ suites = <<SuiteOfSize(t)>>
          /\ inflight \in IF t = 0 THEN {{}} ELSE {{}, {ORPHAN_REQUEST}}
    /\ runs = <<>>
    /\ activeRunSuite = <<>>
    /\ currentUser = MOCK_USERS[2]
    /\ notifications = <<>>
    /\ clock = 1
    /\ activeSuiteId = 1
    /\ showPermModal = FALSE
    /\ permUserToAdd = NoUser
    /\ permRoleToAdd = "MEMBER"
    /\ showRunModal = TRUE
    /\ runMode \in {"MANUAL", "AUTOMATED"}
    /\ runAppType = "WEB"
    /\ runAddress = ""
    /\ runEmail = ""
    /\ runAssets = <<>>
    /\ runnerReady = FALSE
    /\ currentCaseIndex = 0
    /\ results = EmptyResults
    /\ startTime = 0
    /\ isAutoRunning = FALSE
    /\ effectDirty = FALSE
    /\ advanceTimer = FALSE
    /\ manualTimers = 0
    /\ GenerationIdle

NextRunner ==
    \/ confirmRun
    \/ InitEffect
    \/ \E st \in Verdicts : handleStatus(st)
    \/ ManualTimerFire
    \/ NavigateBack
    \/ NavigateForward
    \/ \E idx \in 0..NumCases : ClickCase(idx)
    \/ AutomationEffect
    \/ AdvanceTimerFire
    \/ \E req \in inflight, o \in ApiOutcomes : SimulationResolves(req, o)
    \/ exportResults
    \/ handleFinish
    \/ handleRunCancel

\* one run of a suite, manual or automated, from the dialog to its end
SpecRunner == InitRunner /\ [][NextRunner]_vars

\* a suite the current user created next to the stored one
SECOND_SUITE ==
    [CreatedSuite(SetEntry(EmptyMap, "u1", "ADMIN")) EXCEPT !.id = 2]

\* the suite view with two suites the current user may write
InitGen ==
    /\ view = "SUITES"
    /\ suites = <<MOCK_SUITES[1], SECOND_SUITE>>
    /\ runs = <<>>
    /\ activeRunSuite = <<>>
    /\ currentUser = MOCK_USERS[2]
    /\ notifications = <<>>
    /\ clock = 1
    /\ activeSuiteId = 1
    /\ showPermModal = FALSE
    /\ permUserToAdd = NoUser
    /\ permRoleToAdd = "MEMBER"
    /\ showRunModal = FALSE
    /\ runMode = "MANUAL"
    /\ runAppType = "WEB"
    /\ runAddress = ""
    /\ runEmail = ""
    /\ runAssets = <<>>
    /\ runnerReady = FALSE
    /\ currentCaseIndex = 0
    /\ results = EmptyResults
    /\ startTime = 0
    /\ isAutoRunning = FALSE
    /\ effectDirty = FALSE
    /\ advanceTimer = FALSE
    /\ manualTimers = 0
    /\ inflight = {}
    /\ GenerationIdle

\* generation of cases: requests, cancellation and late responses
SpecGen == InitGen /\ [][NextGen]_vars

----------------------------------------------------------------------------
\* Properties of access control (SpecAccess)

\* this step of the SuiteManager changes the permission mapping of a suite
PermissionsEdited ==
    /\ view = "SUITES"
    /\ \E i \in 1..Len(suites) :
          /\ i <= Len(suites')
          /\ suites'[i].id = suites[i].id
          /\ \/ suites'[i].permissions # suites[i].permissions
             \/ suites'[i].hasPermissions # suites[i].hasPermissions

\* C1: a permission entry of a suite is added, changed or removed through
\* the SuiteManager only while the acting user's role on that suite is ADMIN.
C1_EditsOnlyByAdmin == [][PermissionsEdited => activeRole = "ADMIN"]_vars

\* C2: whenever a suite is the active (rendered) suite of the SuiteManager,
\* the current user's role on it is not NONE.
C2_ActiveSuiteHasRole ==
    (view = "SUITES" /\ activeSuite # <<>>) => activeRole # "NONE"

\* C3: a user whose email is the super-admin address has role ADMIN on every
\* suite, whether the suite has no mapping, no entry for the user, or an
\* entry with a lower role.
C3_SuperAdminIsAdmin ==
    \A i \in 1..Len(suites) : \A u \in Users :
        IsGlobalAdminOf(u) =>
            /\ RoleOf(u, suites[i]) = "ADMIN"
            /\ suites[i] \in Range(VisibleSuitesOf(u))
            /\ (u = currentUser /\ view = "SUITES" /\ activeSuiteId = suites[i].id)
                   => canManageAccess

\* the super-admin works on a suite whose mapping gives them a lower role
C3_Witness ==
    /\ view = "SUITES"
    /\ isGlobalAdmin
    /\ activeSuite # <<>>
    /\ currentUser \in DOMAIN activeSuite[1].permissions
    /\ activeSuite[1].permissions[currentUser] = "OBSERVER"
    /\ showPermModal

\* C4: for a user who is not the super-admin, a suite without a mapping or
\* without an entry for the user gives role NONE and is left out of the
\* user's visible list; otherwise the role is the entry and the suite is in
\* the visible list.
C4_RoleFromMapping ==
    \A i \in 1..Len(suites) : \A u \in Users :
        ~IsGlobalAdminOf(u) =>
            IF ~suites[i].hasPermissions \/ u \notin DOMAIN suites[i].permissions
            THEN /\ RoleOf(u, suites[i]) = "NONE"
                 /\ suites[i] \notin Range(VisibleSuitesOf(u))
            ELSE /\ RoleOf(u, suites[i]) = suites[i].permissions[u]
                 /\ suites[i] \in Range(VisibleSuitesOf(u))

\* after an entry was removed: one ordinary user has an entry, another none
C4_Witness ==
    /\ view = "SUITES"
    /\ \E i \in 1..Len(suites) :
          /\ suites[i].hasPermissions
          /\ "u2" \notin DOMAIN suites[i].permissions
          /\ "u1" \in DOMAIN suites[i].permissions
          /\ suites[i].permissions["u1"] = "MEMBER"

----------------------------------------------------------------------------
\* Properties of run execution (SpecRun, FairSpecAuto)

Terminal(res, c) == res[c].status \in Verdicts

\* C5: when a run starts every case is IDLE, and once a case is PASSED,
\* FAILED or SKIPPED its status does not change for the rest of the run, in
\* manual and in automated mode.
C5_TerminalStatusFinal ==
    [][ /\ (RunnerMounted /\ ~runnerReady /\ runnerReady')
            => \A c \in DOMAIN results' : results'[c].status = "IDLE"
        /\ (RunnerMounted /\ runnerReady /\ view' = "RUNNER")
            => \A c \in DOMAIN results :
                  Terminal(results, c)
                      => results'[c].status = results[c].status ]_vars

LiveRequests == {req \in inflight : req.instance = "mounted"}

\* C6: at no time are two simulation requests of the same run in flight.
C6_OneRequestPerRun == Cardinality(LiveRequests) <= 1

\* the request of a later case is in flight after an earlier one was recorded
C6_Witness ==
    /\ RunnerMounted
    /\ isAutomatedMode
    /\ currentCaseIndex > 0
    /\ LiveRequests # {}
    /\ \E c \in DOMAIN results : Terminal(results, c)

\* a response whose run was cancelled or completed is delivered in this step
StaleResponseDelivered ==
    \E req \in inflight : req \notin inflight' /\ ~RequestLive(req)

\* C7: the response of a simulation request whose run has been cancelled is
\* discarded: it changes neither the run history nor the results of the run
\* that is executing when it arrives.
C7_StaleResponseDiscarded ==
    [][StaleResponseDelivered =>
          /\ runs' = runs
          /\ results' = results
          /\ notifications' = notifications]_vars

\* the response of a cancelled run is pending while a later automated run
\* executes the same case and the history holds a completed run
C7_Witness ==
    /\ RunnerMounted
    /\ runnerReady
    /\ isAutomatedMode
    /\ runs # <<>>
    /\ \E req \in inflight : req.instance = "unmounted" /\ req.case = currentCase
    /\ LiveRequests = {}
    /\ \E c \in DOMAIN results : Terminal(results, c)

AutoRunActive == RunnerMounted /\ isAutomatedMode /\ (~runnerReady \/ isAutoRunning)

AutoRunDone ==
    /\ RunnerMounted
    /\ runnerReady
    /\ isAutomatedMode
    /\ ~isAutoRunning
    /\ isLastCase
    /\ \A c \in DOMAIN results : results[c].status # "IDLE"

\* C8: a failed simulation is recorded as SKIPPED with the fixed fallback
\* note and the run goes on; with effects, timers and responses eventually
\* served, an automated run that is not cancelled reaches the last case with
\* every case non-IDLE and automation stopped.
C8_AutomatedRunFinishes ==
    /\ [][\A req \in inflight :
             (RequestLive(req) /\ SimulationResolves(req, "error"))
                 => /\ results'[req.case].status = "SKIPPED"
                    /\ results'[req.case].notes = FallbackNote
                    /\ view' = "RUNNER"
                    /\ isAutoRunning'
                    /\ effectDirty']_vars
    /\ AutoRunActive ~> (AutoRunDone \/ ~RunnerMounted)

\* an automated run has finished although the call for its first case failed
C8_Witness ==
    /\ AutoRunDone
    /\ results[suite.cases[1]].status = "SKIPPED"
    /\ results[suite.cases[1]].notes = FallbackNote

RunRecords == Range(runs)

\* C9: a run is completed only while the cursor is on the last case; the
\* completion adds exactly one record to the history, with status COMPLETED,
\* the end timestamp, the suite's id and name, and the results as recorded.
C9_CompletionAddsOneRecord ==
    [][(RunRecords' # RunRecords \/ Len(runs') # Len(runs)) =>
          /\ RunnerMounted
          /\ runnerReady
          /\ isLastCase
          /\ Len(runs') = Len(runs) + 1
          /\ RunRecords \subseteq RunRecords'
          /\ Cardinality(RunRecords' \ RunRecords) = 1
          /\ \A r \in RunRecords' \ RunRecords :
                /\ r.status = "COMPLETED"
                /\ r.endTime = clock
                /\ r.startTime = startTime
                /\ r.suiteId = suite.id
                /\ r.suiteName = suite.name
                /\ r.results = results]_vars

\* a completed run whose last case was left IDLE
C9_Witness ==
    /\ runs # <<>>
    /\ view = "DASHBOARD"
    /\ \E r \in RunRecords :
          /\ r.status = "COMPLETED"
          /\ r.results[NumCases].status = "IDLE"
          /\ r.results[1].status = "PASSED"

----------------------------------------------------------------------------
\* Properties of the run history (SpecHistory)

\* C10: a run record that is in the history is never changed or removed by a
\* later operation: later runs, cancellations, edits of the suite and
\* permission changes leave it as it was.
C10_HistoryImmutable == [][\A r \in RunRecords : r \in RunRecords']_vars

\* after a run was recorded the suite was renamed, its permissions were
\* changed, and a later run is executing
C10_Witness ==
    /\ runs # <<>>
    /\ RunnerMounted
    /\ runnerReady
    /\ Len(suites) > 0
    /\ suites[1].name # runs[1].suiteName
    /\ suites[1].hasPermissions
    /\ "u2" \in DOMAIN suites[1].permissions
    /\ suites[1].permissions["u2"] = "MEMBER"
    /\ \E c \in DOMAIN results : Terminal(results, c)

----------------------------------------------------------------------------
\* Properties of cancellation (SpecRun)

\* this step starts a run, or is taken by a run and does not complete it
RunStepWithoutCompletion ==
    /\ RunnerMounted \/ (view' = "RUNNER" /\ activeRunSuite' # <<>>)
    /\ ~(RunnerMounted /\ view' = "DASHBOARD")

\* C11: cancelling a run at any point before completion produces no run
\* record and no run-outcome notification: from the start of the run up to
\* and including the cancel, the history and the notifications stay as they
\* were.
C11_CancelLeavesNoRecord ==
    [][RunStepWithoutCompletion =>
          /\ runs' = runs
          /\ notifications' = notifications]_vars

\* a run was cancelled while its request was in flight, after an earlier run
\* had been recorded
C11_Witness ==
    /\ view = "SUITES"
    /\ activeRunSuite = <<>>
    /\ Len(runs) = 1
    /\ Len(notifications) = 1
    /\ \E req \in inflight : req.instance = "unmounted"

----------------------------------------------------------------------------
\* Properties of run classification (SpecRate)

EntryCount(run) == Cardinality(DOMAIN run.results)

PassedCount(run) ==
    Cardinality({c \in DOMAIN run.results : run.results[c].status = "PASSED"})

\* passRate >= 90 with passRate = 100 * P / T, without rounding
MeetsThreshold(run) ==
    EntryCount(run) > 0 /\ 100 * PassedCount(run) >= 90 * EntryCount(run)

\* rate is the value 0 when T = 0 and 100 * P / T otherwise
IsPassRateOf(rate, run) ==
    IF EntryCount(run) = 0 THEN rate.num = 0
    ELSE rate.num * EntryCount(run) = 100 * PassedCount(run) * rate.den

ClassifiedAsSpecified(run, success) ==
    /\ success <=> MeetsThreshold(run)
    /\ EntryCount(run) = 0 => ~success
    /\ (EntryCount(run) = 10 /\ PassedCount(run) = 9) => success
    /\ (EntryCount(run) = 10 /\ PassedCount(run) = 8) => ~success
    /\ (EntryCount(run) = 3 /\ PassedCount(run) = 2) => ~success

\* C12: for a completed run with T result entries of which P are PASSED,
\* passRate is 0 when T = 0 and 100*P/T otherwise, and the run is a success
\* exactly when the unrounded passRate is at least 90; SKIPPED and IDLE
\* entries count in T and not in P.  Holds for the notification emitted on
\* completion and for the Dashboard's row of every recorded run.
C12_SuccessAtNinetyPercent ==
    /\ [][\A r \in RunRecords' \ RunRecords :
            /\ Len(notifications') = Len(notifications) + 1
            /\ IsPassRateOf(Head(notifications').passRate, r)
            /\ ClassifiedAsSpecified(r, Head(notifications').isSuccess)]_vars
    /\ [](view = "DASHBOARD" =>
            \A r \in RunRecords :
                /\ IsPassRateOf(RecentRunRow(r).passRate, r)
                /\ ClassifiedAsSpecified(r, RecentRunRow(r).isRunPassed))

\* a run with 9 of 10 cases PASSED and one SKIPPED was completed and is
\* shown next to a stored run without entries
C12_Witness ==
    /\ view = "DASHBOARD"
    /\ notifications # <<>>
    /\ Head(notifications).total = 10
    /\ Head(notifications).passed = 9
    /\ Head(notifications).isSuccess
    /\ \E r \in RunRecords :
          /\ EntryCount(r) = 10
          /\ \E c \in DOMAIN r.results : r.results[c].status = "SKIPPED"
    /\ \E r \in RunRecords : EntryCount(r) = 0

----------------------------------------------------------------------------
\* Properties of removing one's own access (SpecAccess)

\* the current user can ask for the removal of their own entry
OwnEntryRemovable ==
    /\ PermModalRendered
    /\ ~isGlobalAdmin
    /\ currentUser \in PermRows(activeSuite[1])

\* C13: when a user who is not the super-admin removes their own entry from
\* the active suite's mapping, a confirmation is requested before any state
\* changes; if it is declined, the mapping, the suite collection and the
\* active suite selection are unchanged.
C13_DeclinedRemovalChangesNothing ==
    [][(OwnEntryRemovable /\ handleRemovePermission(currentUser, FALSE))
          => /\ suites' = suites
             /\ activeSuiteId' = activeSuiteId]_vars

\* a member of the suite, lowered from ADMIN, has the dialog open on a
\* mapping that still holds their entry next to another user's
C13_Witness ==
    /\ OwnEntryRemovable
    /\ activeSuite[1].permissions[currentUser] = "MEMBER"
    /\ "u2" \in DOMAIN activeSuite[1].permissions
    /\ currentUser = "u1"

\* this step removes the current user's own entry from the active suite
OwnEntryRemoved ==
    /\ OwnEntryRemovable
    /\ currentUser' = currentUser
    /\ \E i \in 1..Len(suites') :
          /\ suites'[i].id = activeSuiteId
          /\ currentUser \notin DOMAIN suites'[i].permissions

\* C14: after a non-super-admin user confirms the removal of their own
\* entry, the entry is gone from the mapping and the active suite selection
\* is cleared; no suite is rendered as active for that user until they
\* select (or create) one.
C14_SelfRemovalClearsSelection ==
    [][ /\ OwnEntryRemoved =>
              /\ activeSuiteId' = NoSuiteId
              /\ FindSuite(suites', activeSuiteId') = <<>>
        /\ (view = "SUITES" /\ view' = "SUITES"
               /\ activeSuite = <<>> /\ FindSuite(suites', activeSuiteId') # <<>>)
              => \/ \E id \in SuiteIds(visibleSuites) : SelectSuite(id)
                 \/ createSuite ]_vars

\* u1 has removed their own entry: nothing is selected, the entry is gone
\* and the dialog flag is still set
C14_Witness ==
    /\ view = "SUITES"
    /\ currentUser = "u1"
    /\ activeSuiteId = NoSuiteId
    /\ showPermModal
    /\ Len(suites) = 1
    /\ suites[1].hasPermissions
    /\ "u1" \notin DOMAIN suites[1].permissions

----------------------------------------------------------------------------
\* Properties of the permission cycle (SpecCycle)

CycleRole == RoleOf(CycleUser, suites[1])

\* the capability flags as CycleUser sees them on the suite
CycleUserLooksAtSuite ==
    view = "SUITES" /\ currentUser = CycleUser /\ activeSuite # <<>>

OthersKeepEntries ==
    \A u \in Users \ {CycleUser} :
        /\ u \in DOMAIN suites[1].permissions <=> u \in DOMAIN suites'[1].permissions
        /\ u \in DOMAIN suites[1].permissions
              => suites'[1].permissions[u] = suites[1].permissions[u]

\* C15: from a mapping without an entry for X, add X as MEMBER, change X to
\* ADMIN, remove X.  After the add X resolves to MEMBER (canWrite and canRun,
\* neither canDelete nor canManageAccess); after the change X resolves to
\* ADMIN (all four capabilities); after the remove the mapping has no entry
\* for X and X resolves to NONE; the entries of all other users are the same
\* in all four states.
C15_PermissionCycle ==
    /\ [][ /\ OthersKeepEntries
           /\ (handleAddPermission /\ permUserToAdd = CycleUser)
                 => /\ CycleUser \in DOMAIN suites'[1].permissions
                    /\ RoleOf(CycleUser, suites'[1]) = "MEMBER"
           /\ handleChangePermission(CycleUser, "ADMIN")
                 => /\ RoleOf(CycleUser, suites[1]) = "MEMBER"
                    /\ RoleOf(CycleUser, suites'[1]) = "ADMIN"
           /\ handleRemovePermission(CycleUser, TRUE)
                 => /\ CycleUser \notin DOMAIN suites'[1].permissions
                    /\ RoleOf(CycleUser, suites'[1]) = "NONE" ]_vars
    /\ [](CycleUserLooksAtSuite =>
            /\ CycleRole = "MEMBER"
                  => canWrite /\ canRun /\ ~canDelete /\ ~canManageAccess
            /\ CycleRole = "ADMIN"
                  => canWrite /\ canRun /\ canDelete /\ canManageAccess
            /\ CycleRole = "NONE"
                  => ~canWrite /\ ~canRun /\ ~canDelete /\ ~canManageAccess)

\* X was added as MEMBER and changed to ADMIN, and now manages the access
\* of a suite that lists another user
C15_Witness ==
    /\ CycleUserLooksAtSuite
    /\ CycleRole = "ADMIN"
    /\ showPermModal
    /\ permUserToAdd = NoUser
    /\ "u1" \in DOMAIN suites[1].permissions
    /\ suites[1].permissions["u1"] = "OBSERVER"

----------------------------------------------------------------------------
\* Properties of capability gating (SpecGate)

\* the role the stored mapping of suite s gives user u right now
MappedRole(u, s) ==
    IF Email[u] = SUPER_ADMIN_EMAIL THEN "ADMIN"
    ELSE IF s.hasPermissions /\ u \in DOMAIN s.permissions THEN s.permissions[u]
    ELSE "NONE"

ActiveMappedRole ==
    IF activeSuite = <<>> THEN "NONE" ELSE MappedRole(currentUser, activeSuite[1])

\* this step edits the name of the active suite
NameEdited ==
    /\ activeSuite # <<>>
    /\ \E i \in 1..Len(suites') :
          suites'[i].id = activeSuiteId /\ suites'[i].name # activeSuite[1].name

----------------------------------------------------------------------------
\* Properties of stored mappings (SpecAccess)

\* C17: the super-admin is never stored in a permission mapping: after any
\* sequence of suite creations and permission edits by any user, no suite's
\* mapping has an entry keyed by the super-admin's user id.
C17_SuperAdminNeverStored ==
    \A i \in 1..Len(suites) : \A u \in Users :
        IsGlobalAdminOf(u) => u \notin DOMAIN suites[i].permissions

----------------------------------------------------------------------------
\* Properties of the run dialog (SpecDialog)

\* the configuration the draft of the dialog stands for
DraftAsConfig ==
    [present |-> TRUE, appType |-> runAppType, appAddress |-> runAddress,
     testEmail |-> runEmail, executionMode |-> runMode,
     mockAssets |-> <<runAssets>>]

\* this step confirms the run dialog
RunConfirmed == view = "SUITES" /\ showRunModal /\ view' # "SUITES"

\* C18: confirmRun replaces the active suite's stored run configuration
\* entirely by the draft (app type, address, credential, execution mode,
\* asset list), leaves every other suite and the suite's cases and
\* permissions unchanged, and starts the runner on a suite carrying exactly
\* the configuration now stored.
C18_ConfirmStoresDraft ==
    [][RunConfirmed =>
          /\ Len(suites') = Len(suites)
          /\ \A i \in 1..Len(suites) :
                IF suites[i].id = activeSuiteId
                THEN /\ suites'[i].targetConfig = DraftAsConfig
                     /\ suites'[i].id = suites[i].id
                     /\ suites'[i].name = suites[i].name
                     /\ suites'[i].cases = suites[i].cases
                     /\ suites'[i].hasPermissions = suites[i].hasPermissions
                     /\ suites'[i].permissions = suites[i].permissions
                     /\ activeRunSuite' = <<suites'[i]>>
                ELSE suites'[i] = suites[i] ]_vars

\* a run was confirmed on a draft that differs from the defaults in every
\* field; the other suite is as it was
C18_Witness ==
    /\ RunnerMounted
    /\ suite.id = 1
    /\ suite.targetConfig =
          TargetConfig("DESKTOP", "https://app.test", "qa@app.test", "AUTOMATED",
                       <<<<"b.txt", "a.txt">>>>)
    /\ suites[1].targetConfig = suite.targetConfig
    /\ suites[2] = OTHER_SUITE

\* the stored value of a field, or the default where the field is absent
StoredOrDefault(config) ==
    [appType   |-> IF config.present /\ config.appType # UNSET
                   THEN config.appType ELSE "WEB",
     address   |-> IF config.present /\ config.appAddress # UNSET
                   THEN config.appAddress ELSE "",
     email     |-> IF config.present /\ config.testEmail # UNSET
                   THEN config.testEmail ELSE "",
     mode      |-> IF config.present /\ config.executionMode # UNSET
                   THEN config.executionMode ELSE "MANUAL",
     assets    |-> IF config.present /\ config.mockAssets # <<>>
                   THEN config.mockAssets[1] ELSE <<>>]

\* C19: opening the run dialog sets every draft field from the suite's
\* stored configuration, with the defaults WEB, empty address, empty
\* credential, MANUAL and empty asset list for absent fields, whatever draft
\* values remain from an earlier dialog; opening it on a suite right after
\* confirmRun reproduces the confirmed configuration.
C19_DialogSeededFromStored ==
    [][(view = "SUITES" /\ ~showRunModal /\ showRunModal') =>
          /\ activeSuite # <<>>
          /\ LET seed == StoredOrDefault(activeSuite[1].targetConfig)
             IN  /\ runAppType' = seed.appType
                 /\ runAddress' = seed.address
                 /\ runEmail' = seed.email
                 /\ runMode' = seed.mode
                 /\ runAssets' = seed.assets
          /\ (activeSuite[1].targetConfig.present
                /\ activeSuite[1].targetConfig.executionMode # UNSET)
                => DraftAsConfig' = activeSuite[1].targetConfig ]_vars

\* the dialog is open again on the configuration confirmed before
C19_Witness ==
    /\ view = "SUITES"
    /\ showRunModal
    /\ activeSuite # <<>>
    /\ activeSuite[1].targetConfig = DraftAsConfig
    /\ runMode = "AUTOMATED"
    /\ runAppType = "DESKTOP"
    /\ runAssets = <<"a.txt">>

\* no name occurs twice in list q
NoDuplicates(q) == \A i, j \in 1..Len(q) : q[i] = q[j] => i = j

\* C20: after any sequence of adding batches of file names and removing
\* names in the run dialog, starting from a duplicate-free list, the draft
\* asset list contains no name twice.
C20_AssetsHaveNoDuplicates == NoDuplicates(runAssets)

----------------------------------------------------------------------------
\* Properties of case generation (SpecGen)

\* the token of the request is not the current operation token
StaleRequest(req) == req.opId # genOpRef

\* the response of request req is delivered in this step
GenResponseDelivered(req) ==
    req \in genPending /\ \A r \in genPending' : r.opId # req.opId

\* C21: a generation response is applied only if its token is still the
\* current one when it resolves: the late response of a cancelled or
\* superseded request adds no cases to any suite, sets no run configuration,
\* shows no failure notice and leaves the generating flag, the token and the
\* dialog of the newer request as they are.
C21_StaleGenerationDropped ==
    [][\A req \in genPending :
          (GenResponseDelivered(req) /\ StaleRequest(req))
             => /\ suites' = suites
                /\ alerts' = alerts
                /\ isGenerating' = isGenerating
                /\ genOpRef' = genOpRef
                /\ showPromptModal' = showPromptModal
                /\ prompt' = prompt]_vars

\* the response of the first request has been dropped: a second request is
\* the current one and still generating, no suite has a new case or a
\* configuration and no notice was shown
C21_Witness ==
    /\ view = "SUITES"
    /\ now = 3
    /\ isGenerating
    /\ genOpRef = 2
    /\ \A req \in genPending : req.opId = 2
    /\ genPending # {}
    /\ alerts = 0
    /\ suites = <<MOCK_SUITES[1], SECOND_SUITE>>

GenFailure == [threw |-> TRUE, count |-> 0]

\* C22: when the generation call fails, nothing is mutated: the suite
\* collection (cases and run configuration of every suite) is as before the
\* request, one failure notice is shown for the current request, and the
\* generating flag is reset with the dialog and its text kept, so that the
\* user can retry.
C22_FailedGenerationMutatesNothing ==
    [][ /\ (isGenerating /\ isGenerating') => suites' = suites
        /\ \A req \in genPending :
          (~StaleRequest(req) /\ GenerationResolves(req, GenFailure))
             => /\ suites' = suites
                /\ alerts' = alerts + 1
                /\ ~isGenerating'
                /\ showPromptModal'
                /\ prompt' = prompt
                /\ prompt' # ""]_vars

\* after a failed request and its notice the user has retried: the second
\* request is generating and the suites are as they were
C22_Witness ==
    /\ view = "SUITES"
    /\ alerts = 1
    /\ isGenerating
    /\ genOpRef = 2
    /\ genPending # {}
    /\ \A req \in genPending : req.opId = 2
    /\ suites = <<MOCK_SUITES[1], SECOND_SUITE>>

----------------------------------------------------------------------------
\* Properties of the cursor (SpecRunner)

\* this step of an automated run moves the cursor and does not end the run
AutomatedCursorMoved ==
    /\ RunnerMounted
    /\ isAutomatedMode
    /\ view' = "RUNNER"
    /\ currentCaseIndex' # currentCaseIndex

\* the 1500 ms timer of the simulation loop advances to the next case
LoopAdvance ==
    /\ isAutoRunning
    /\ advanceTimer
    /\ ~advanceTimer'
    /\ currentCaseIndex' = currentCaseIndex + 1

\* the loop has stopped after the last case and the operator steps to an
\* adjacent case with the backward or the forward button
StepAfterLoop ==
    /\ runnerReady
    /\ ~isAutoRunning
    /\ \A c \in DOMAIN results : results[c].status # "IDLE"
    /\ currentCaseIndex' \in {currentCaseIndex - 1, currentCaseIndex + 1}
    /\ currentCaseIndex' \in 0..(Len(suite.cases) - 1)

\* C23 as stated: at every point of an automated run, from start until
\* completion or cancellation, the cursor changes only by the simulation
\* loop advancing it to the next case, never by an operator navigation
\* action.
C23_CursorNotOperatorMovable == [][AutomatedCursorMoved => LoopAdvance]_vars

\* C23 as amended: in automated mode, while the simulation loop is running
\* the cursor changes only by the loop advancing it to the next case, and
\* the case list never moves it; once the loop has stopped after the last
\* case, the backward and forward buttons move it to an adjacent case.
C23_CursorFixedWhileAutoRunning ==
    [][AutomatedCursorMoved => (LoopAdvance \/ StepAfterLoop)]_vars

\* the loop of an automated run has stopped and the operator has stepped
\* back from the last case
C23_Witness ==
    /\ RunnerMounted
    /\ runnerReady
    /\ isAutomatedMode
    /\ ~isAutoRunning
    /\ Len(suite.cases) > 1
    /\ currentCaseIndex = Len(suite.cases) - 2
    /\ \A c \in DOMAIN results : Terminal(results, c)

----------------------------------------------------------------------------
\* Properties of the export (SpecRunner)

\* the status the export is to report for case c
ReportedStatus(res, c) ==
    IF c \notin DOMAIN res \/ res[c].status = "IDLE" THEN "SKIPPED"
    ELSE res[c].status

\* C24: export writes one row per case in suite order whose status field is
\* the case's recorded status, except that a case whose status is IDLE or
\* unset is reported as SKIPPED; exporting changes neither the recorded
\* statuses (IDLE included), nor the cursor, nor the run history.
C24_ExportReportsIdleAsSkipped ==
    [][exportResults =>
          /\ Len(download') = Len(suite.cases)
          /\ \A i \in 1..Len(suite.cases) :
                /\ download'[i].caseId = suite.cases[i]
                /\ download'[i].status = ReportedStatus(results, suite.cases[i])
          /\ results' = results
          /\ currentCaseIndex' = currentCaseIndex
          /\ runs' = runs]_vars

----------------------------------------------------------------------------
\* Properties of the cursor's range (SpecRunner)

\* a run has been started and has neither completed nor been cancelled
RunStarted == activeRunSuite # <<>> /\ view \in {"RUNNER", "CRASHED"}

\* C25: in every reachable state of a run the active-case cursor points at
\* an existing case of the suite, 0 <= cursor < number of cases, for every
\* suite a run can be started on and under any interleaving of verdicts,
\* delayed auto-advances and backward, forward or case-list navigation.
C25_CursorInRange ==
    RunStarted =>
        /\ 0 <= currentCaseIndex
        /\ currentCaseIndex < Len(suite.cases)

----------------------------------------------------------------------------
\* Properties of the order of automated execution (SpecRunner)

\* position of case c in the suite, 1-based
PositionOf(c) == CHOOSE i \in 1..Len(suite.cases) : suite.cases[i] = c

\* the cases before case c in suite order
EarlierCases(c) == {suite.cases[i] : i \in 1..(PositionOf(c) - 1)}

\* the requests issued by the running instance in this step
RequestsIssued == {req \in inflight' : req.instance = "mounted"} \ LiveRequests

\* C26: in automated mode cases are executed in suite order, one at a time.
\* A request is issued for the case under the cursor only, while that case
\* is IDLE, no other request of the run is pending and every earlier case
\* has a recorded non-IDLE result; the response of a request records a
\* non-IDLE result for its case, and a recorded result never returns to
\* IDLE during the run.  Hence at most one request is issued per case.
C26_AutomatedInSuiteOrder ==
    [][(RunnerMounted /\ isAutomatedMode /\ view' = "RUNNER") =>
          /\ Cardinality(RequestsIssued) <= 1
          /\ \A req \in RequestsIssued :
                /\ req.case = currentCase
                /\ results[req.case].status = "IDLE"
                /\ LiveRequests = {}
                /\ \A c \in EarlierCases(req.case) : Terminal(results, c)
          /\ \A req \in LiveRequests :
                req \notin inflight' => Terminal(results', req.case)
          /\ runnerReady =>
                \A c \in DOMAIN results :
                    Terminal(results, c) => Terminal(results', c)]_vars

\* the request of the last case is pending after the results of all earlier
\* cases were recorded
C26_Witness ==
    /\ RunnerMounted
    /\ isAutomatedMode
    /\ Len(suite.cases) > 1
    /\ isLastCase
    /\ results[currentCase].status = "IDLE"
    /\ \E req \in LiveRequests : req.case = currentCase
    /\ \A c \in EarlierCases(currentCase) : Terminal(results, c)

----------------------------------------------------------------------------
\* Properties of completed automated runs (SpecRunner)

\* this step completes the automated run that is executing
AutomatedRunCompleted ==
    /\ RunnerMounted
    /\ isAutomatedMode
    /\ Len(runs') = Len(runs) + 1

\* C27: an automated run can be completed only after the simulation loop
\* has stopped at the last case; the result mapping of the completed run has
\* an entry for every case of the suite, and every entry is PASSED, FAILED
\* or SKIPPED, never IDLE.
C27_AutomatedRunCompleteResults ==
    [][AutomatedRunCompleted =>
          /\ ~isAutoRunning
          /\ isLastCase
          /\ \A r \in RunRecords' \ RunRecords :
                /\ DOMAIN r.results = Range(suite.cases)
                /\ \A c \in DOMAIN r.results : r.results[c].status \in Verdicts]_vars

\* an automated run of two cases was completed: both results carry the
\* log or the fallback note of a simulation
C27_Witness ==
    /\ view = "DASHBOARD"
    /\ Len(runs) = 1
    /\ Cardinality(DOMAIN runs[1].results) = NumCases
    /\ \A c \in DOMAIN runs[1].results :
          /\ runs[1].results[c].status \in Verdicts
          /\ runs[1].results[c].notes # NoNotes
    /\ \E c \in DOMAIN runs[1].results : runs[1].results[c].notes = FallbackNote

----------------------------------------------------------------------------
\* Properties of recording a verdict (SpecRunner)

\* this step of a run that goes on changes the result mapping
VerdictRecorded ==
    /\ RunnerMounted
    /\ runnerReady
    /\ view' = "RUNNER"
    /\ results' # results

\* the case a verdict of this step is for: the case under the cursor in
\* manual mode, the case of the request that resolves in automated mode
VerdictCases ==
    IF isAutomatedMode
    THEN {req.case : req \in {r \in LiveRequests : r \notin inflight'}}
    ELSE {currentCase}

\* C28: recording a verdict changes the result of one case only: the case
\* under the cursor when the verdict is given in manual mode, the case the
\* simulation request was issued for in automated mode; the results of all
\* other cases are unchanged by that step.
C28_VerdictChangesOneCase ==
    [][VerdictRecorded =>
          /\ DOMAIN results' = DOMAIN results
          /\ \E c \in VerdictCases :
                /\ results'[c].status \in Verdicts
                /\ \A d \in DOMAIN results \ {c} : results'[d] = results[d]]_vars

\* two cases carry different verdicts, the first recorded before the second
C28_Witness ==
    /\ RunnerMounted
    /\ runnerReady
    /\ Len(suite.cases) = NumCases
    /\ results[suite.cases[1]].status = "FAILED"
    /\ results[suite.cases[NumCases]].status = "PASSED"
    /\ results[suite.cases[1]].timestamp <= results[suite.cases[NumCases]].timestamp

----------------------------------------------------------------------------
\* Permission operations leave everything but one entry alone

\* the two mappings agree on every user but u
OnlyEntryDiffers(p, q, u) ==
    \A v \in (DOMAIN p \cup DOMAIN q) \ {u} :
        /\ v \in DOMAIN p
        /\ v \in DOMAIN q
        /\ p[v] = q[v]

\* the step replaces only the suite `target`, and in it only the entry of u
OnlyEntryOfSuiteChanges(target, u) ==
    /\ Len(suites') = Len(suites)
    /\ \A i \in 1..Len(suites) :
          IF suites[i].id = target
          THEN /\ suites'[i].id = suites[i].id
               /\ suites'[i].name = suites[i].name
               /\ suites'[i].cases = suites[i].cases
               /\ suites'[i].targetConfig = suites[i].targetConfig
               /\ OnlyEntryDiffers(suites[i].permissions,
                                   suites'[i].permissions, u)
          ELSE suites'[i] = suites[i]

\* C29: adding, changing or removing a permission, in the dialog of
\* SuiteManager or in the one of the Dashboard, replaces only the target
\* suite and changes in it only the mapping entry of the given user: its
\* cases, name and configuration and every other suite stay as they were
C29_PermissionOpsChangeOneEntry ==
    [][ /\ handleAddPermission
            => OnlyEntryOfSuiteChanges(activeSuiteId, permUserToAdd)
        /\ \A u \in Users :
              /\ (\E r \in Roles : handleChangePermission(u, r))
                    => OnlyEntryOfSuiteChanges(activeSuiteId, u)
              /\ (\E b \in BOOLEAN : handleRemovePermission(u, b))
                    => OnlyEntryOfSuiteChanges(activeSuiteId, u)
              /\ (\E r \in Roles : Dashboard_handleChangePermission(u, r))
                    => OnlyEntryOfSuiteChanges(editingSuite[1].id, u)
              /\ Dashboard_handleRemovePermission(u)
                    => OnlyEntryOfSuiteChanges(editingSuite[1].id, u)
        /\ Dashboard_handleAddPermission
            => OnlyEntryOfSuiteChanges(editingSuite[1].id, dashPermUserToAdd)
      ]_vars

\* the super administrator has given u1 an entry in the other team's suite
\* on the Dashboard, after u2 lost the entry in the first suite
C29_Witness ==
    /\ DashModalRendered
    /\ Len(suites) = 2
    /\ editingSuite[1].id = 2
    /\ "u1" \in DOMAIN suites[2].permissions
    /\ "u2" \notin DOMAIN suites[1].permissions
    /\ suites[2].targetConfig = OTHER_SUITE.targetConfig

----------------------------------------------------------------------------
\* The run collection and its display

\* C30: displaying the dashboard leaves the stored run collection as it is,
\* the order of its records included; the collection changes only when a
\* run completes, and then to the new record followed by the records it
\* held, in the order it held them
C30_DashboardReadsRunsOnly ==
    [][ runs' # runs
          => /\ Len(runs') = Len(runs) + 1
             /\ Tail(runs') = runs ]_vars

====
